---- MODULE Spec2Model ----
(***************************************************************************)
(* A model of tAuto: the SQLite candle store (storage.py), the token-bucket *)
(* rate limiter and the candlestick service (candles.py), and the fetcher   *)
(* loop with its day-bucket backfill queue (fetcher.py).                    *)
(*                                                                         *)
(* Timestamps are integer milliseconds as in the source.  The OHLCV fields *)
(* of a candle (open, high, low, close, volume, volume_ccy, volume_quote)  *)
(* are carried as one value px; confirm is kept apart.                     *)
(***************************************************************************)
EXTENDS Integers, Sequences, FiniteSets, TLC

VARIABLES
    candles,      \* the candles table: a set of rows
    applied,      \* history: per key, the fields of the row applied last ({} if none)
    overwrote,    \* history: keys for which an upsert met an existing row
    ret,          \* outcome of the last operation
    clock,        \* time.monotonic(), in ticks of 1/TicksPerSec second
    limiter,      \* per limiter: _rate, _capacity, _tokens, _last_refill
    pc,           \* per caller of acquire(): the line it is at
    local,        \* per caller: the limiter it is in, its now, elapsed, sleep_time
    grants,       \* history: per limiter, the acquire() returns: all (n), and those
                  \* since a refill last added tokens (burst)
    hist,         \* the fetch_history or fetch_realtime call in progress, step by step
    writes,       \* history: the keys the last operation upserted
    sched,        \* run_fetcher: now, the day queue and the place in the cycle
    calls,        \* history: per source, the adapter calls issued
    db,           \* the sqlite file: its tables as committed, and the open transaction
    books,        \* the orderbook_snapshots table: a set of rows
    req           \* the adapter request in progress: attempts, sleeps, outcome

storeVars == <<candles, applied, overwrote>>

limVars == <<clock, limiter, pc, local, grants>>

histVars == <<hist, writes>>

schedVars == <<sched, calls>>

restVars == <<db, books, req>>

vars == <<candles, applied, overwrote, ret, clock, limiter, pc, local, grants,
          hist, writes, sched, calls, db, books, req>>

----------------------------------------------------------------------------
(* Values *)

Min(a, b) == IF a <= b THEN a ELSE b

Max(a, b) == IF a >= b THEN a ELSE b

\* bars are written <<value, unit>>: "1m" is <<1, "m">>
Bar1m == <<1, "m">>

----------------------------------------------------------------------------
(* storage.py: the candles table *)

\* the primary key (source, inst_id, bar, ts)
Key(row) == <<row.source, row.inst_id, row.bar, row.ts>>

\* the non-key columns
Fields(row) == [px |-> row.px, confirm |-> row.confirm]

CandleStick(source, inst_id, bar, ts, px, confirm) ==
    [source |-> source, inst_id |-> inst_id, bar |-> bar, ts |-> ts,
     px |-> px, confirm |-> confirm]

\* INSERT OR IGNORE: a conflicting row keeps its old fields
UpsertRowIgnore(table, c) ==
    IF \E r \in table : Key(r) = Key(c) THEN table ELSE table \cup {c}

\* INSERT ... ON CONFLICT(source, inst_id, bar, ts) DO UPDATE SET <all non-key columns>
UpsertRow(table, c) ==
    {r \in table : Key(r) # Key(c)} \cup {c}

\* executemany: the statement is run for each row of the batch, in order
RECURSIVE executemany(_, _)
executemany(table, rows) ==
    IF rows = <<>> THEN table
    ELSE executemany(UpsertRow(table, Head(rows)), Tail(rows))

\* a store that keeps the batch back
upsert_candles_deferred(table, batch) == table

\* upsert_candles: nothing on an empty batch, else one transaction over the batch
upsert_candles(table, batch) ==
    IF batch = <<>> THEN table ELSE executemany(table, batch)

----------------------------------------------------------------------------
(* candles.py: RateLimiter *)

\* time.monotonic() is read in ticks of 1/TicksPerSec second
TicksPerSec == 2

\* rate_per_second is given in units of 1/RateDen call per second
RateDen == 2

\* the monotonic clock is followed up to MaxClock ticks
MaxClock == 6

\* at most MaxGrants acquire() calls return per limiter
MaxGrants == 5

\* one token, in the unit tokens are counted in: 1/(RateDen * TicksPerSec) token,
\* which is what a limiter of rate 1/RateDen refills in one tick
OneToken == RateDen * TicksPerSec

\* RateLimiter.__init__ at time t: the bucket starts full
RateLimiter(rate_per_second, t) ==
    [rate |-> Max(rate_per_second, 0),
     capacity |-> Max(rate_per_second, RateDen) * TicksPerSec,
     tokens |-> Max(rate_per_second, RateDen) * TicksPerSec,
     last_refill |-> t]

NoLimiter ==
    /\ clock = 0
    /\ limiter = <<>>
    /\ pc = <<>>
    /\ local = <<>>
    /\ grants = <<>>

IdleLocal == [lim |-> 0, now |-> 0, elapsed |-> 0, slept |-> 0, sleep_time |-> 0]

\* acquire() on limiter l, line 24: a limiter of rate <= 0 returns at once
AcquireCall(c, l) ==
    /\ pc[c] = "idle"
    /\ IF limiter[l].rate <= 0
       THEN /\ grants' = [grants EXCEPT ![l].n = @ + 1, ![l].burst = @ + 1]
            /\ UNCHANGED <<pc, local>>
       ELSE /\ pc' = [pc EXCEPT ![c] = "L27"]
            /\ local' = [local EXCEPT ![c] = [IdleLocal EXCEPT !.lim = l]]
            /\ UNCHANGED grants
    /\ UNCHANGED <<clock, limiter, storeVars, ret, histVars, schedVars, restVars>>

\* lines 27-28: now = time.monotonic(); elapsed = now - self._last_refill
ReadClock(c) ==
    /\ pc[c] = "L27"
    /\ local' = [local EXCEPT ![c].now = clock,
                              ![c].elapsed = clock - limiter[local[c].lim].last_refill]
    /\ pc' = [pc EXCEPT ![c] = "L29"]
    /\ UNCHANGED <<clock, limiter, grants, storeVars, ret, histVars, schedVars, restVars>>

\* a refill that is not capped at the capacity
RefilledUncapped(lim, elapsed) == lim.tokens + elapsed * lim.rate

\* line 29: min(self._capacity, self._tokens + elapsed * self._rate)
Refilled(lim, elapsed) == Min(lim.capacity, lim.tokens + elapsed * lim.rate)

Refill(c) ==
    /\ pc[c] = "L29"
    /\ limiter' = [limiter EXCEPT ![local[c].lim].tokens =
                       Refilled(limiter[local[c].lim], local[c].elapsed)]
    /\ grants' = [grants EXCEPT ![local[c].lim].burst =
                      IF Refilled(limiter[local[c].lim], local[c].elapsed)
                             > limiter[local[c].lim].tokens
                      THEN 0 ELSE @]
    /\ pc' = [pc EXCEPT ![c] = "L30"]
    /\ UNCHANGED <<clock, local, storeVars, ret, histVars, schedVars, restVars>>

\* a refill that leaves the time of the last refill as it was
StaleLastRefill(lim, now) == lim.last_refill

\* line 30: self._last_refill = now
NewLastRefill(lim, now) == now

SetLastRefill(c) ==
    /\ pc[c] = "L30"
    /\ limiter' = [limiter EXCEPT ![local[c].lim].last_refill =
                       NewLastRefill(limiter[local[c].lim], local[c].now)]
    /\ pc' = [pc EXCEPT ![c] = "L31"]
    /\ UNCHANGED <<clock, local, grants, storeVars, ret, histVars, schedVars, restVars>>

\* a test that lets any non-empty bucket through
HasTokenAny(lim) == lim.tokens > 0

\* line 31: if self._tokens >= 1
HasToken(lim) == lim.tokens >= OneToken

TestTokens(c) ==
    /\ pc[c] = "L31"
    /\ pc' = [pc EXCEPT ![c] = IF HasToken(limiter[local[c].lim]) THEN "L32" ELSE "L34"]
    /\ UNCHANGED <<clock, limiter, local, grants, storeVars, ret, histVars,
                   schedVars, restVars>>

\* lines 32-33: self._tokens -= 1; return
TakeToken(c) ==
    /\ pc[c] = "L32"
    /\ limiter' = [limiter EXCEPT ![local[c].lim].tokens = @ - OneToken]
    /\ grants' = [grants EXCEPT ![local[c].lim].n = @ + 1,
                                ![local[c].lim].burst = @ + 1]
    /\ ret' = [op |-> "acquire", lim |-> local[c].lim,
               before |-> limiter[local[c].lim].tokens,
               after |-> limiter[local[c].lim].tokens - OneToken,
               at |-> clock]
    /\ pc' = [pc EXCEPT ![c] = "idle"]
    /\ UNCHANGED <<clock, local, storeVars, histVars, schedVars, restVars>>

\* line 34: sleep_time = max((1 - self._tokens) / self._rate, 0.01), kept as the
\* number of token units still wanted; the division is done in SleptEnough
ComputeSleep(c) ==
    /\ pc[c] = "L34"
    /\ local' = [local EXCEPT ![c].sleep_time = OneToken - limiter[local[c].lim].tokens,
                              ![c].slept = clock]
    /\ pc' = [pc EXCEPT ![c] = "L35"]
    /\ UNCHANGED <<clock, limiter, grants, storeVars, ret, histVars, schedVars, restVars>>

\* time.sleep(sleep_time) has lasted at least sleep_time: the ticks slept refill
\* the wanted amount at self._rate, and are at least 0.01 second
SleptEnough(c) ==
    LET ticks == clock - local[c].slept
    IN /\ ticks * limiter[local[c].lim].rate >= local[c].sleep_time
       /\ ticks * 100 >= TicksPerSec

\* line 35: time.sleep returns and the loop starts over
Wake(c) ==
    /\ pc[c] = "L35"
    /\ SleptEnough(c)
    /\ pc' = [pc EXCEPT ![c] = "L27"]
    /\ UNCHANGED <<clock, limiter, local, grants, storeVars, ret, histVars,
                   schedVars, restVars>>

\* the monotonic clock moves on by one tick
Tick ==
    /\ clock < MaxClock
    /\ clock' = clock + 1
    /\ UNCHANGED <<limiter, pc, local, grants, storeVars, ret, histVars, schedVars, restVars>>

AcquireStep(c) ==
    \/ ReadClock(c)
    \/ Refill(c)
    \/ SetLastRefill(c)
    \/ TestTokens(c)
    \/ TakeToken(c)
    \/ ComputeSleep(c)
    \/ Wake(c)

NoStore ==
    /\ candles = {}
    /\ applied = <<>>
    /\ overwrote = {}

NoHistory ==
    /\ hist = [status |-> "idle"]
    /\ writes = {}

NoSched ==
    /\ sched = [status |-> "off"]
    /\ calls = <<>>

NoRest ==
    /\ db = [status |-> "closed"]
    /\ books = {}
    /\ req = [status |-> "idle"]

----------------------------------------------------------------------------
(* SpecLimiter: one limiter used by one caller *)

\* the configured rates, in 1/RateDen call per second: negative, zero,
\* below one per second, one and two per second
Rates == {-1, 0, 1, RateDen, 2 * RateDen}

LimiterInit ==
    /\ NoStore
    /\ NoHistory
    /\ NoSched
    /\ NoRest
    /\ ret = [op |-> "init"]
    /\ clock = 0
    /\ \E r \in Rates : limiter = [l \in {"limiter"} |-> RateLimiter(r, 0)]
    /\ pc = [c \in {1} |-> "idle"]
    /\ local = [c \in {1} |-> IdleLocal]
    /\ grants = [l \in {"limiter"} |-> [n |-> 0, burst |-> 0]]

LimiterNext ==
    \/ grants["limiter"].n < MaxGrants /\ AcquireCall(1, "limiter")
    \/ AcquireStep(1)
    \/ Tick

SpecLimiter == LimiterInit /\ [][LimiterNext]_vars

\* C7: with rate > 0 and one caller the token count always lies in
\* [0, capacity], capacity = max(rate, 1); an acquire() returns only by taking
\* one whole token that was there, and the returns between two refills that
\* add tokens never exceed the capacity
C7_TokensWithinCapacity ==
    \A l \in DOMAIN limiter :
        limiter[l].rate > 0 =>
            /\ limiter[l].capacity = Max(limiter[l].rate, RateDen) * TicksPerSec
            /\ 0 <= limiter[l].tokens
            /\ limiter[l].tokens <= limiter[l].capacity
            /\ grants[l].burst * OneToken <= limiter[l].capacity
            /\ (ret.op = "acquire" /\ ret.lim = l) =>
                   /\ ret.before >= OneToken
                   /\ ret.after = ret.before - OneToken
                   /\ ret.after >= 0

\* a limiter of rate 1/RateDen (capacity 1) has slept until the refill,
\* granted its second token and is empty again
C7_Witness ==
    /\ limiter["limiter"].rate = 1
    /\ grants["limiter"].n = 2
    /\ ret.op = "acquire" /\ ret.at = clock /\ ret.before = OneToken
    /\ limiter["limiter"].tokens = 0
    /\ pc[1] = "idle"

\* C8: with rate r > 0 the k-th acquire() of the one caller does not return
\* earlier than (k - c) / r seconds after the limiter was made, c = max(r, 1):
\* k tokens are at most the c of the full bucket plus r per second elapsed
C8_AcquireNotEarly ==
    \A l \in DOMAIN limiter :
        limiter[l].rate > 0 =>
            grants[l].n * OneToken <= limiter[l].capacity + clock * limiter[l].rate

\* rate 2 per second: the fifth acquire() returns at 1.5 seconds exactly
C8_Witness ==
    /\ limiter["limiter"].rate = 2 * RateDen
    /\ grants["limiter"].n = 5
    /\ ret.op = "acquire" /\ ret.at = clock
    /\ clock * 2 = 3 * TicksPerSec

----------------------------------------------------------------------------
(* SpecShared: one limiter shared by several callers whose steps interleave; *)
(* acquire() takes no lock (candles.py:23-35)                               *)

NCallers == 2

\* the shared limiter is followed for SharedMaxClock ticks and grants
SharedMaxClock == 3

SharedMaxGrants == 3

\* unlimited, and one call per second
SharedRates == {0, RateDen}

SharedInit ==
    /\ NoStore
    /\ NoHistory
    /\ NoSched
    /\ NoRest
    /\ ret = [op |-> "init"]
    /\ clock = 0
    /\ \E r \in SharedRates : limiter = [l \in {"limiter"} |-> RateLimiter(r, 0)]
    /\ pc = [c \in 1..NCallers |-> "idle"]
    /\ local = [c \in 1..NCallers |-> IdleLocal]
    /\ grants = [l \in {"limiter"} |-> [n |-> 0, burst |-> 0]]

SharedNext ==
    \/ \E c \in 1..NCallers :
           grants["limiter"].n < SharedMaxGrants /\ AcquireCall(c, "limiter")
    \/ \E c \in 1..NCallers : AcquireStep(c)
    \/ clock < SharedMaxClock /\ Tick

SpecShared == SharedInit /\ [][SharedNext]_vars

\* C9: with several callers in acquire() at once the token count never goes
\* below zero and no more tokens are granted than were there (the full
\* bucket plus the refill of the time elapsed)
C9_NoOverdraw ==
    \A l \in DOMAIN limiter :
        limiter[l].rate > 0 =>
            /\ limiter[l].tokens >= 0
            /\ grants[l].n * OneToken <= limiter[l].capacity + clock * limiter[l].rate

----------------------------------------------------------------------------
(* candles.py, fetcher.py: intervals and the history paging of both services *)

\* raise ValueError
Unsupported == -1

\* a conversion that takes a bar it does not know for a bar of minutes
bar_seconds_default(bar) ==
    CASE bar[2] = "s" -> bar[1]
      [] bar[2] = "m" -> bar[1] * 60
      [] bar[2] = "H" -> bar[1] * 60 * 60
      [] bar[2] = "D" -> bar[1] * 24 * 60 * 60
      [] bar[2] = "W" -> bar[1] * 7 * 24 * 60 * 60
      [] bar[2] = "M" -> bar[1] * 30 * 24 * 60 * 60
      [] OTHER -> bar[1] * 60

\* candles.py and fetcher.py, _bar_to_milliseconds: the product of each
\* branch before its last factor 1000 (the milliseconds of a bar of months
\* are beyond the integers products are computed in here)
bar_seconds(bar) ==
    CASE bar[2] = "s" -> bar[1]
      [] bar[2] = "m" -> bar[1] * 60
      [] bar[2] = "H" -> bar[1] * 60 * 60
      [] bar[2] = "D" -> bar[1] * 24 * 60 * 60
      [] bar[2] = "W" -> bar[1] * 7 * 24 * 60 * 60
      [] bar[2] = "M" -> bar[1] * 30 * 24 * 60 * 60
      [] OTHER -> Unsupported

\* candles.py and fetcher.py, _bar_to_milliseconds: the OKX bar codes
bar_to_milliseconds(bar) ==
    IF bar_seconds(bar) = Unsupported THEN Unsupported ELSE bar_seconds(bar) * 1000

\* fetcher.py, _binance_interval_ms: the product of each branch before its
\* last factor 1000
binance_interval_seconds(interval) ==
    CASE interval[2] = "m" -> interval[1] * 60
      [] interval[2] = "h" -> interval[1] * 60 * 60
      [] interval[2] = "d" -> interval[1] * 24 * 60 * 60
      [] interval[2] = "w" -> interval[1] * 7 * 24 * 60 * 60
      [] interval[2] = "M" -> interval[1] * 30 * 24 * 60 * 60
      [] OTHER -> Unsupported

\* fetcher.py, _binance_interval_ms: the Binance interval codes
binance_interval_ms(interval) ==
    IF binance_interval_seconds(interval) = Unsupported THEN Unsupported
    ELSE binance_interval_seconds(interval) * 1000

\* the timestamps of set S in ascending order
RECURSIVE Ascending(_)
Ascending(S) ==
    IF S = {} THEN <<>>
    ELSE LET lo == CHOOSE x \in S : \A y \in S : x <= y
         IN <<lo>> \o Ascending(S \ {lo})

SetMin(S) == CHOOSE x \in S : \A y \in S : x <= y

SetMax(S) == CHOOSE x \in S : \A y \in S : x >= y

\* fetcher.py, _parse_binance_kline: a row of the adapter as a candle; the
\* adapter's prices are 1 and its klines are closed
parse_binance_kline(inst_id, bar, ts) ==
    CandleStick("binance", inst_id, bar, ts, 1, TRUE)

\* no cursor yet: Python's None
NoCursor == -1

\* an adapter page holds at most PageLimit rows (limit=1000 for Binance,
\* history_limit=300 for OKX)
PageLimit == 2

\* a cursor that stays on the oldest candle seen
SameCursor(oldest, interval_ms) == oldest

\* fetcher.py line 101: cursor = oldest - interval_ms
NextCursor(oldest, interval_ms) == oldest - interval_ms

\* the state of a fetch_history call that has just been entered
EnterHistory(svc, inst_id, bar, start_ts, end_ts) ==
    [status |-> IF svc = "binance" /\ end_ts < start_ts THEN "returned" ELSE "running",
     svc |-> svc, inst_id |-> inst_id, bar |-> bar,
     start_ts |-> start_ts, end_ts |-> end_ts,
     cursor |-> IF svc = "binance" THEN end_ts ELSE NoCursor,
     pages |-> 0, full |-> 0, acquires |-> 0,
     empty |-> FALSE, oldest |-> NoCursor,
     all |-> <<>>, raised |-> "no"]

\* a service that stores every candle of the page
filter_nothing(page, start_ts, end_ts) == page

\* lines 92-94 (candles.py:91-95): the candles with start_ts <= ts <= end_ts
filter_range(page, start_ts, end_ts) ==
    {ts \in page : start_ts <= ts /\ ts <= end_ts}

\* BinanceBackfillService.fetch_history, one turn of the loop (lines 81-101)
\* with the page `page` (a set of timestamps) as the answer of get_klines
BinancePage(h, table, page) ==
    LET interval_ms == binance_interval_ms(h.bar)
        filtered == filter_range(page, h.start_ts, h.end_ts)
        rows == [i \in 1..Cardinality(filtered) |->
                    parse_binance_kline(h.inst_id, h.bar, Ascending(filtered)[i])]
        cursor == NextCursor(SetMin(page), interval_ms)
    IN IF page = {}
       THEN [hist |-> [h EXCEPT !.status = "returned", !.pages = @ + 1,
                                !.empty = TRUE],
             table |-> table, written |-> {}]
       ELSE [hist |-> [h EXCEPT !.status = IF cursor >= h.start_ts
                                           THEN "running" ELSE "returned",
                                !.pages = @ + 1,
                                !.full = IF Cardinality(page) = PageLimit
                                         THEN @ + 1 ELSE @,
                                !.oldest = SetMin(page),
                                !.cursor = cursor,
                                !.all = @ \o Ascending(filtered)],
             table |-> upsert_candles(table, rows),
             written |-> {Key(rows[i]) : i \in 1..Len(rows)}]

\* CandlestickService.fetch_history, one turn of the loop (lines 79-101).  A page
\* that is not empty is parsed by _parse_candle (lines 143-157), which builds
\* CandleStick without its required field source (storage.py:17): TypeError,
\* before anything is stored or the cursor is moved
OkxPage(h, table, page) ==
    IF page = {}
    THEN [hist |-> [h EXCEPT !.status = "returned", !.pages = @ + 1,
                             !.acquires = @ + 1, !.empty = TRUE],
          table |-> table, written |-> {}]
    ELSE [hist |-> [h EXCEPT !.status = "raised", !.raised = "TypeError",
                             !.pages = @ + 1, !.acquires = @ + 1,
                             !.full = IF Cardinality(page) = PageLimit
                                      THEN @ + 1 ELSE @,
                             !.oldest = SetMin(page)],
          table |-> table, written |-> {}]

----------------------------------------------------------------------------
(* SpecHistory: fetch_history of either service, page by page, against an   *)
(* adapter that answers each request with any page of rows in the range    *)
(* asked for                                                               *)

\* the timestamps of the calls are multiples of half a minute up to HistSpan minutes
HistSpan == 3

HistTimes == {k * 30000 : k \in 0..(2 * HistSpan)}

\* the adapter's candles: one per minute
HistGrid == {k * 60000 : k \in 0..HistSpan}

HistInst == [okx |-> "BTC-USDT", binance |-> "BTCUSDT"]

\* what get_klines(start_time, end_time, limit) may answer
BinancePages(start_time, end_time) ==
    {S \in SUBSET {ts \in HistGrid : start_time <= ts /\ ts <= end_time} :
        Cardinality(S) <= PageLimit}

\* what get_candlesticks(limit, before=None) may answer
OkxPages == {S \in SUBSET HistGrid : Cardinality(S) <= PageLimit}

HistoryInit ==
    /\ candles = {}
    /\ applied = <<>>
    /\ overwrote = {}
    /\ ret = [op |-> "init"]
    /\ NoLimiter
    /\ NoHistory
    /\ NoSched
    /\ NoRest

\* fetch_history(inst_id, start_ts, end_ts) is called
StartHistory ==
    \E svc \in {"okx", "binance"}, start_ts \in HistTimes, end_ts \in HistTimes :
        /\ hist.status # "running"
        /\ hist' = EnterHistory(svc, HistInst[svc], Bar1m, start_ts, end_ts)
        /\ writes' = {}
        /\ ret' = [op |-> "fetch_history", pre |-> candles]
        /\ UNCHANGED <<storeVars, limVars, schedVars, restVars>>

BinanceHistoryPage ==
    /\ hist.status = "running"
    /\ hist.svc = "binance"
    /\ \E page \in BinancePages(hist.start_ts, hist.cursor) :
          LET r == BinancePage(hist, candles, page)
          IN /\ hist' = r.hist
             /\ candles' = r.table
             /\ writes' = writes \cup r.written
    /\ UNCHANGED <<applied, overwrote, ret, limVars, schedVars, restVars>>

OkxHistoryPage ==
    /\ hist.status = "running"
    /\ hist.svc = "okx"
    /\ \E page \in OkxPages :
          LET r == OkxPage(hist, candles, page)
          IN /\ hist' = r.hist
             /\ candles' = r.table
             /\ writes' = writes \cup r.written
    /\ UNCHANGED <<applied, overwrote, ret, limVars, schedVars, restVars>>

HistoryNext ==
    \/ StartHistory
    \/ BinanceHistoryPage
    \/ OkxHistoryPage

SpecHistory == HistoryInit /\ [][HistoryNext]_vars

\* the number of pages a call over [start_ts, end_ts] can ask for: one per
\* interval of the range, and a last one
MaxPages(h) ==
    (h.end_ts - h.start_ts) \div (IF h.svc = "binance" THEN binance_interval_ms(h.bar)
                                  ELSE bar_to_milliseconds(h.bar)) + 2

PagesBounded ==
    hist.status # "idle" =>
        /\ hist.pages <= IF hist.end_ts < hist.start_ts THEN 1 ELSE MaxPages(hist)
        /\ hist.status = "running" =>
              /\ ~hist.empty
              /\ hist.pages > 0 => hist.oldest > hist.start_ts

CursorDecreases ==
    (hist.status = "running" /\ hist'.status = "running"
        /\ hist'.pages = hist.pages + 1) => hist'.cursor < hist.cursor

CollectedIsStored ==
    \A i \in 1..Len(hist.all) :
        \E r \in candles :
            Key(r) = <<hist.svc, hist.inst_id, hist.bar, hist.all[i]>>

\* a page request follows a page request of the same call with a cursor
\* that is strictly smaller
StrictlyBackward ==
    (hist.status = "running" /\ hist.pages > 0 /\ hist'.pages = hist.pages + 1)
        => /\ hist.cursor < hist.end_ts
           /\ hist'.status = "running" => hist'.cursor < hist.cursor

\* C32: within one fetch_history call, paging proceeds strictly backward in
\* time and each page is persisted before the cursor advances: whenever a
\* page request is issued (and at every other point of the call), all in-range
\* candles of every earlier page of that call are already stored, and each
\* request's cursor is strictly smaller than the previous one
C32_PagePersistedBeforeCursorMoves ==
    [](hist.status # "idle" => CollectedIsStored) /\ [][StrictlyBackward]_vars

\* a Binance call over [0, 180000] is about to ask for its second page: the
\* two candles of the first page are stored and the cursor is below them
C32_Witness ==
    /\ hist.status = "running"
    /\ hist.svc = "binance"
    /\ hist.start_ts = 0 /\ hist.end_ts = 180000
    /\ hist.pages = 1
    /\ hist.all = <<120000, 180000>>
    /\ hist.cursor = 60000
    /\ CollectedIsStored

\* the OKX service acquires its history limiter once for every page it asks
\* for (candles.py:79-80)
OkxAcquiresOncePerPage ==
    (hist.status # "idle" /\ hist.svc = "okx") => hist.acquires = hist.pages

\* C33: every history page request sent to an adapter is preceded by exactly
\* one acquire() on the service's historical limiter, for the history paging
\* of every source: a call has acquired as often as it has asked for a page
C33_OneAcquirePerPage ==
    hist.status # "idle" => hist.acquires = hist.pages

----------------------------------------------------------------------------
(* Gap detection: storage.py fetch_existing_timestamps, candles.py          *)
(* backfill_missing, fetcher.py _find_missing_in_day                        *)

\* a range that leaves end_ts out
fetch_existing_timestamps_before(table, source, inst_id, bar, start_ts, end_ts) ==
    Ascending({r.ts : r \in {x \in table :
                                /\ x.source = source /\ x.inst_id = inst_id
                                /\ x.bar = bar
                                /\ start_ts <= x.ts /\ x.ts < end_ts}})

\* SELECT ts ... WHERE source = ? AND inst_id = ? AND bar = ? AND ts BETWEEN ? AND ?
\* ORDER BY ts ASC
fetch_existing_timestamps(table, source, inst_id, bar, start_ts, end_ts) ==
    Ascending({r.ts : r \in {x \in table :
                                /\ x.source = source /\ x.inst_id = inst_id
                                /\ x.bar = bar
                                /\ start_ts <= x.ts /\ x.ts <= end_ts}})

\* range(first, last_exclusive, step) as a list
Range(first, last_exclusive, step) ==
    IF last_exclusive <= first THEN <<>>
    ELSE [i \in 1..((last_exclusive - first + step - 1) \div step) |->
             first + (i - 1) * step]

SeqToSet(q) == {q[i] : i \in 1..Len(q)}

\* CandlestickService._expected_timestamps
expected_timestamps(bar, start_ts, end_ts) ==
    LET interval_ms == bar_to_milliseconds(bar)
        aligned_start == start_ts - (start_ts % interval_ms)
        aligned_end == end_ts - (end_ts % interval_ms)
    IN Range(aligned_start, aligned_end + interval_ms, interval_ms)

\* CandlestickService.backfill_missing.  Line 112 computes the grid; lines
\* 113-115 call store.fetch_existing_timestamps(inst_id, self.bar, start_ts,
\* end_ts), four arguments for the five parameters (source, inst_id, bar,
\* start_ts, end_ts) of storage.py:195-202 and of DatabaseBackend
\* (storage.py:40-47): TypeError, before anything is compared or fetched
backfill_missing(table, inst_id, bar, start_ts, end_ts) ==
    [raised |-> IF bar_to_milliseconds(bar) = Unsupported
                THEN "ValueError" ELSE "TypeError",
     missing |-> <<>>,
     table |-> table,
     written |-> {}]

\* SqliteCandleStore.latest_timestamp(source, inst_id, bar): SELECT MAX(ts),
\* None when the series has no row
latest_timestamp(table, source, inst_id, bar) ==
    LET stored == {r.ts : r \in {x \in table : /\ x.source = source
                                               /\ x.inst_id = inst_id
                                               /\ x.bar = bar}}
    IN IF stored = {} THEN NoCursor ELSE SetMax(stored)

\* CandlestickService.fill_since_latest.  Line 124 calls
\* store.latest_timestamp(inst_id, self.bar), two arguments for the three
\* parameters (source, inst_id, bar) of storage.py:214 and of DatabaseBackend:
\* TypeError, before latest is compared with anything
fill_since_latest(table, inst_id, bar, now_ts) ==
    [raised |-> "TypeError", result |-> NoCursor, fetched |-> FALSE]

\* fetcher.py, _find_missing_in_day
find_missing_in_day(table, source, inst_id, bar, day_start, day_end) ==
    LET interval_ms == IF source = "binance" THEN binance_interval_ms(bar)
                       ELSE bar_to_milliseconds(bar)
        aligned_start == day_start - (day_start % interval_ms)
        aligned_end == day_end - (day_end % interval_ms)
        expected == Range(aligned_start, aligned_end + interval_ms, interval_ms)
        existing == SeqToSet(fetch_existing_timestamps(table, source, inst_id, bar,
                                                       aligned_start, aligned_end))
    IN SelectSeq(expected, LAMBDA ts : ts \notin existing)

\* _find_missing_in_day, lines 315-317: the conversion of the bar raises
\* ValueError before a grid is built
find_missing_in_day_raised(source, bar) ==
    IF (IF source = "binance" THEN binance_interval_ms(bar)
        ELSE bar_to_milliseconds(bar)) = Unsupported
    THEN "ValueError" ELSE "no"

----------------------------------------------------------------------------
(* SpecBackfill: gap detection and backfill_missing over a store that holds *)
(* any part of the minute candles of both sources                          *)

\* the store holds candles of the minutes 0..GapSpan; the ranges asked about
\* have bounds at multiples of half a minute
GapSpan == 3

GapGrid == {k * 60000 : k \in 0..GapSpan}

GapTimes == {k * 30000 : k \in 0..(2 * GapSpan)}

GapRows ==
    {CandleStick(src, HistInst[src], Bar1m, ts, 1, TRUE) :
        src \in {"okx", "binance"}, ts \in GapGrid}

BackfillInit ==
    /\ candles \in SUBSET GapRows
    /\ applied = <<>>
    /\ overwrote = {}
    /\ ret = [op |-> "init"]
    /\ NoLimiter
    /\ NoHistory
    /\ NoSched
    /\ NoRest

\* service.backfill_missing(inst_id, start_ts, end_ts) of the OKX service of bar 1m
BackfillMissing ==
    \E start_ts \in GapTimes, end_ts \in GapTimes :
        LET r == backfill_missing(candles, HistInst["okx"], Bar1m, start_ts, end_ts)
        IN /\ start_ts <= end_ts
           /\ candles' = r.table
           /\ writes' = r.written
           /\ ret' = [op |-> "backfill_missing", source |-> "okx",
                      start_ts |-> start_ts, end_ts |-> end_ts,
                      raised |-> r.raised, missing |-> r.missing, pre |-> candles]
           /\ UNCHANGED <<applied, overwrote, hist, limVars, schedVars, restVars>>

\* _find_missing_in_day(store, source, inst_id, bar, day_start, day_end)
FindMissingInDay ==
    \E source \in {"okx", "binance"}, start_ts \in GapTimes, end_ts \in GapTimes :
        /\ start_ts <= end_ts
        /\ writes' = {}
        /\ ret' = [op |-> "find_missing_in_day", source |-> source,
                   start_ts |-> start_ts, end_ts |-> end_ts,
                   raised |-> "no",
                   missing |-> find_missing_in_day(candles, source, HistInst[source],
                                                   Bar1m, start_ts, end_ts),
                   pre |-> candles]
        /\ UNCHANGED <<storeVars, hist, limVars, schedVars, restVars>>

\* store.latest_timestamp(source, inst_id, bar)
LatestTimestamp ==
    \E source \in {"okx", "binance"} :
        /\ writes' = {}
        /\ ret' = [op |-> "latest_timestamp", source |-> source,
                   result |-> latest_timestamp(candles, source, HistInst[source], Bar1m),
                   pre |-> candles]
        /\ UNCHANGED <<storeVars, hist, limVars, schedVars, restVars>>

\* service.fill_since_latest(inst_id) of the OKX service of bar 1m, at the
\* wall-clock time now_ts
FillSinceLatest ==
    \E now_ts \in GapTimes :
        LET r == fill_since_latest(candles, HistInst["okx"], Bar1m, now_ts)
        IN /\ writes' = {}
           /\ ret' = [op |-> "fill_since_latest", source |-> "okx", now_ts |-> now_ts,
                      raised |-> r.raised, result |-> r.result,
                      fetched |-> r.fetched, pre |-> candles]
           /\ UNCHANGED <<storeVars, hist, limVars, schedVars, restVars>>

BackfillNext ==
    \/ BackfillMissing
    \/ FindMissingInDay
    \/ LatestTimestamp
    \/ FillSinceLatest

SpecBackfill == BackfillInit /\ [][BackfillNext]_vars

\* the timestamps t of the minute grid with align(start) <= t <= align(end)
GridOf(start_ts, end_ts) ==
    {t \in GapGrid : /\ start_ts - (start_ts % 60000) <= t
                     /\ t <= end_ts - (end_ts % 60000)}

\* the timestamps stored for the 1m candles of the source's instrument
StoredTs(table, source) ==
    {r.ts : r \in {x \in table : /\ x.source = source
                                 /\ x.inst_id = HistInst[source]
                                 /\ x.bar = Bar1m}}

\* C4: once backfill_missing over a grid-aligned range has ended, the
\* timestamps stored in the range are exactly the grid start, start+interval,
\* ..., end
C4_GridComplete ==
    (/\ ret.op = "backfill_missing"
     /\ ret.start_ts % 60000 = 0 /\ ret.end_ts % 60000 = 0) =>
        /\ ret.raised = "no"
        /\ SeqToSet(fetch_existing_timestamps(candles, "okx", HistInst["okx"], Bar1m,
                                              ret.start_ts, ret.end_ts))
             = GridOf(ret.start_ts, ret.end_ts)

\* C5: backfill_missing and the per-day gap check report exactly the grid
\* timestamps between the aligned bounds that are not stored
C5_MissingExact ==
    ret.op \in {"backfill_missing", "find_missing_in_day"} =>
        /\ ret.raised = "no"
        /\ SeqToSet(ret.missing)
             = GridOf(ret.start_ts, ret.end_ts) \ StoredTs(ret.pre, ret.source)

\* the half of C5 that is about the scheduler's gap check
GapCheckExact ==
    ret.op = "find_missing_in_day" =>
        /\ ret.missing = Ascending(GridOf(ret.start_ts, ret.end_ts)
                                       \ StoredTs(ret.pre, ret.source))

\* C6: backfill_missing over a range of which a part is stored upserts exactly
\* the timestamps that were missing and leaves the stored rows as they were
C6_FillsOnlyTheGap ==
    ret.op = "backfill_missing" =>
        /\ writes = {<<"okx", HistInst["okx"], Bar1m, t>> :
                        t \in GridOf(ret.start_ts, ret.end_ts) \ StoredTs(ret.pre, "okx")}
        /\ ret.pre \subseteq candles

\* the store half of C23: latest_timestamp is the greatest timestamp stored
\* for the series, or None when it has no row
LatestTimestampIsMax ==
    ret.op = "latest_timestamp" =>
        IF StoredTs(ret.pre, ret.source) = {} THEN ret.result = NoCursor
        ELSE /\ ret.result \in StoredTs(ret.pre, ret.source)
             /\ \A t \in StoredTs(ret.pre, ret.source) : t <= ret.result

\* C23: fill_since_latest(instrument) returns none and makes no adapter call
\* when no row is stored for the service's (source, instrument, bar);
\* otherwise it returns the latest timestamp that was stored before the call,
\* and it runs fetch_history(latest, now) if and only if latest < now
C23_FillSinceLatest ==
    ret.op = "fill_since_latest" =>
        /\ ret.raised = "no"
        /\ IF StoredTs(ret.pre, "okx") = {}
           THEN ret.result = NoCursor /\ ~ret.fetched
           ELSE /\ ret.result = SetMax(StoredTs(ret.pre, "okx"))
                /\ ret.fetched <=> ret.result < ret.now_ts

----------------------------------------------------------------------------
(* SpecRate: the adapter calls of the scheduler's one thread, against the   *)
(* clock: every OKX service has a history limiter of its own               *)
(* (candles.py:52-54), the Binance service has none (fetcher.py:67-102)    *)

\* CandlestickService.history_qps, calls per second
history_qps == 10

\* fetcher.py DEFAULT_QPS (TAUTO_FETCH_QPS), the calls-per-second budget
DEFAULT_QPS == 10

\* the scheduler is followed for RateMaxClock ticks and RateMaxCalls adapter
\* calls in all
RateMaxClock == 2

RateMaxCalls == 11

\* two of the bars run_fetcher builds an OKX service for
RateBars == {Bar1m, <<5, "m">>}

\* the adapter calls started so far
RateStarted ==
    grants[Bar1m].n + grants[<<5, "m">>].n + calls["binance"]

RateInit ==
    /\ NoStore
    /\ writes = {}
    /\ ret = [op |-> "init"]
    /\ clock = 0
    /\ limiter = [b \in RateBars |-> RateLimiter(history_qps * RateDen, 0)]
    /\ pc = [c \in {1} |-> "idle"]
    /\ local = [c \in {1} |-> IdleLocal]
    /\ grants = [b \in RateBars |-> [n |-> 0, burst |-> 0]]
    /\ hist = [status |-> "idle"]
    /\ sched = [status |-> "running"]
    /\ calls = [src \in {"okx", "binance"} |-> 0]
    /\ NoRest

\* _refresh_candles(service, store, inst_id, bar, limit), fetcher.py:168:
\* service.client.source is read first and OkxClient has no such attribute, so
\* the refresh ends in AttributeError (logged by run_fetcher) with no adapter call
RateRefresh ==
    /\ hist.status = "idle"
    /\ ret' = [op |-> "refresh_candles", raised |-> "AttributeError"]
    /\ UNCHANGED <<storeVars, limVars, histVars, schedVars, restVars>>

\* _process_backfill_queue_multi reaches service.fetch_history of the OKX
\* service of a bar (fetcher.py:291), candles.py:76-78
RateEnterOkxHistory ==
    \E b \in RateBars :
        /\ hist.status = "idle"
        /\ RateStarted < RateMaxCalls
        /\ hist' = [status |-> "L79", bar |-> b, granted |-> grants[b].n]
        /\ UNCHANGED <<storeVars, ret, limVars, writes, schedVars, restVars>>

\* candles.py:79, self.history_limiter.acquire()
RateAcquire ==
    /\ hist.status = "L79"
    /\ grants[hist.bar].n = hist.granted
    /\ AcquireCall(1, hist.bar)

\* candles.py:81-86, client.get_history_candles; an empty page returns
\* (line 87-88) and any other raises in _parse_candle (line 90), so the
\* fetch_history call ends with its first adapter call
RateOkxCall ==
    /\ hist.status = "L79"
    /\ pc[1] = "idle"
    /\ grants[hist.bar].n > hist.granted
    /\ calls' = [calls EXCEPT !["okx"] = @ + 1]
    /\ hist' = [status |-> "idle"]
    /\ UNCHANGED <<storeVars, ret, limVars, writes, sched, restVars>>

\* BinanceBackfillService.fetch_history, fetcher.py:81-88: client.get_klines,
\* with no limiter and no sleep before it
RateBinanceCall ==
    /\ hist.status = "idle"
    /\ RateStarted < RateMaxCalls
    /\ calls' = [calls EXCEPT !["binance"] = @ + 1]
    /\ UNCHANGED <<storeVars, ret, limVars, histVars, sched, restVars>>

RateNext ==
    \/ RateRefresh
    \/ RateEnterOkxHistory
    \/ RateAcquire
    \/ AcquireStep(1)
    \/ RateOkxCall
    \/ RateBinanceCall
    \/ clock < RateMaxClock /\ Tick

SpecRate == RateInit /\ [][RateNext]_vars

\* C10: from the start to any time T, the adapter calls to one source (all
\* its services together) are at most budget * T plus one bucket capacity
\* max(budget, 1)
C10_SourceWithinBudget ==
    \A src \in DOMAIN calls :
        calls[src] * OneToken
            <= DEFAULT_QPS * RateDen * clock
               + Max(DEFAULT_QPS * RateDen, RateDen) * TicksPerSec

\* each limiter on its own keeps its service within history_qps
ServiceWithinRate ==
    \A b \in DOMAIN limiter :
        grants[b].n * OneToken <= limiter[b].capacity + clock * limiter[b].rate

----------------------------------------------------------------------------
(* fetcher.py: the day queue, the refresh of a pair and the backfill step   *)

DayMs == 24 * 60 * 60 * 1000

\* the trailing window in days: 90 in _three_months_ago, followed here for
\* WindowDays days (90 days of milliseconds are beyond the integers checked)
WindowDays == 2

\* fetcher.py DEFAULT_BACKFILL_DAYS (TAUTO_BACKFILL_DAYS_PER_CYCLE)
DEFAULT_BACKFILL_DAYS == 3

\* the order of the dict run_fetcher passes as sources
FetchSources == <<"okx", "binance">>

\* DEFAULT_INST_IDS / DEFAULT_BINANCE_INST_IDS: one instrument per source
FetchInstIds == [okx |-> <<"BTC-USDT">>, binance |-> <<"BTCUSDT">>]

\* DEFAULT_BARS / DEFAULT_BINANCE_BARS: two bars per source, one of them
\* longer than a quarter of a day and one at least a day
FetchBars ==
    [okx |-> << <<12, "H">>, <<1, "D">> >>,
     binance |-> << <<6, "h">>, <<3, "d">> >>]

\* _day_start_ts: midnight UTC of the day of ts
day_start_ts(ts) == ts - (ts % DayMs)

\* _three_months_ago
three_months_ago(now_ts) == now_ts - (WindowDays * DayMs)

\* a queue whose days all run to their last millisecond
build_day_queue_uncut(now_ts) ==
    LET end_day_start == day_start_ts(now_ts)
        start_day_start == day_start_ts(three_months_ago(now_ts))
        n == ((end_day_start - start_day_start) \div DayMs) + 1
    IN [k \in 1..n |->
           <<end_day_start - (k - 1) * DayMs,
             end_day_start - (k - 1) * DayMs + DayMs - 1>>]

\* _build_day_queue: the days of the window, newest first, the last one cut at now
build_day_queue(now_ts) ==
    LET end_day_start == day_start_ts(now_ts)
        start_day_start == day_start_ts(three_months_ago(now_ts))
        n == ((end_day_start - start_day_start) \div DayMs) + 1
    IN [k \in 1..n |->
           <<end_day_start - (k - 1) * DayMs,
             Min(end_day_start - (k - 1) * DayMs + DayMs - 1, now_ts)>>]

\* _day_has_missing
day_has_missing(table, source, day_start, day_end) ==
    \E i \in 1..Len(FetchInstIds[source]), j \in 1..Len(FetchBars[source]) :
        find_missing_in_day(table, source, FetchInstIds[source][i],
                            FetchBars[source][j], day_start, day_end) # <<>>

\* _build_missing_day_queue_multi: per day, newest first, the sources with a gap
build_missing_day_queue_multi(table, now_ts) ==
    LET days == build_day_queue(now_ts)
        ns == Len(FetchSources)
        all == [m \in 1..(Len(days) * ns) |->
                   <<FetchSources[((m - 1) % ns) + 1],
                     days[((m - 1) \div ns) + 1][1],
                     days[((m - 1) \div ns) + 1][2]>>]
    IN SelectSeq(all, LAMBDA b : day_has_missing(table, b[1], b[2], b[3]))

\* the adapter holds a candle at every grid timestamp from 0 on, or (mode
\* "empty") none at all for the instrument in the window; get_klines answers
\* with at most PageLimit of those in [start_time, end_time], the earliest or
\* the latest ones as the exchange does it
BinanceAdapterPage(interval, start_time, end_time, mode) ==
    LET S == {ts \in {k * binance_interval_ms(interval) :
                         k \in 0..(Max(end_time, 0) \div binance_interval_ms(interval))} :
                 start_time <= ts /\ ts <= end_time /\ mode # "empty"}
        q == Ascending(S)
    IN IF Len(q) <= PageLimit THEN S
       ELSE IF mode = "earliest" THEN SeqToSet(SubSeq(q, 1, PageLimit))
       ELSE SeqToSet(SubSeq(q, Len(q) - PageLimit + 1, Len(q)))

\* get_candlesticks(limit, before=None, use_history=True): the newest candles
OkxAdapterPage(bar, now_ts) ==
    LET q == Ascending({k * bar_to_milliseconds(bar) :
                           k \in 0..(now_ts \div bar_to_milliseconds(bar))})
    IN SeqToSet(SubSeq(q, Max(1, Len(q) - PageLimit + 1), Len(q)))

\* BinanceBackfillService.fetch_history: the loop of lines 80-101
RECURSIVE binance_fetch_loop(_, _, _)
binance_fetch_loop(h, table, mode) ==
    IF h.status # "running" THEN [hist |-> h, table |-> table]
    ELSE LET r == BinancePage(h, table,
                       BinanceAdapterPage(h.bar, h.start_ts, h.cursor, mode))
         IN binance_fetch_loop(r.hist, r.table, mode)

\* service.fetch_history(inst_id, start_ts, end_ts) of the service of the
\* source; CandlestickService.fetch_history ends in its first turn
fetch_history(table, source, inst_id, bar, start_ts, end_ts, now_ts, mode) ==
    IF source = "binance"
    THEN binance_fetch_loop(EnterHistory("binance", inst_id, bar, start_ts, end_ts),
                            table, mode)
    ELSE LET r == OkxPage(EnterHistory("okx", inst_id, bar, start_ts, end_ts),
                          table,
                          IF mode = "empty" THEN {} ELSE OkxAdapterPage(bar, now_ts))
         IN [hist |-> r.hist, table |-> r.table]

\* _refresh_candles: line 168 reads service.client.source, an attribute that
\* OkxClient (okx.py:19-27) does not have: AttributeError before the store
\* or the adapter is used
refresh_candles(table, inst_id, bar, now_ts) ==
    [raised |-> "AttributeError", table |-> table,
     branch |-> "none", history |-> <<>>, realtime |-> 0]

\* _process_backfill_queue_multi, lines 285-304: the (inst_id, bar) pairs of
\* a popped bucket from pair k on; an exception of fetch_history ends it
RECURSIVE process_pairs(_, _, _, _, _, _)
process_pairs(k, bucket, table, now_ts, mode, attempted) ==
    LET source == bucket[1]
        nb == Len(FetchBars[source])
        inst_id == FetchInstIds[source][((k - 1) \div nb) + 1]
        bar == FetchBars[source][((k - 1) % nb) + 1]
        missing == find_missing_in_day(table, source, inst_id, bar,
                                       bucket[2], bucket[3])
        r == fetch_history(table, source, inst_id, bar, bucket[2], bucket[3],
                           now_ts, mode)
        tried == attempted \cup {<<source, inst_id, bar, bucket[2]>>}
    IN IF k > Len(FetchInstIds[source]) * nb
       THEN [table |-> table, raised |-> "no", attempted |-> attempted]
       ELSE IF missing = <<>>
       THEN process_pairs(k + 1, bucket, table, now_ts, mode, attempted)
       ELSE IF r.hist.status = "raised"
       THEN [table |-> r.table, raised |-> r.hist.raised, attempted |-> tried]
       ELSE process_pairs(k + 1, bucket, r.table, now_ts, mode, tried)

\* a step that puts the bucket back at the front when its processing raises
RECURSIVE process_days_requeue(_, _, _, _, _, _, _)
process_days_requeue(n, day_queue, table, now_ts, mode, popped, attempted) ==
    IF n = 0
    THEN [day_queue |-> day_queue, table |-> table, raised |-> "no",
          popped |-> popped, attempted |-> attempted]
    ELSE LET r == process_pairs(1, Head(day_queue), table, now_ts, mode, attempted)
         IN IF r.raised # "no"
            THEN [day_queue |-> day_queue, table |-> r.table,
                  raised |-> r.raised,
                  popped |-> Append(popped, Head(day_queue)),
                  attempted |-> r.attempted]
            ELSE process_days_requeue(n - 1, Tail(day_queue), r.table, now_ts, mode,
                                      Append(popped, Head(day_queue)), r.attempted)

\* _process_backfill_queue_multi, lines 282-284: n more buckets are popped
\* from the left and processed
RECURSIVE process_days(_, _, _, _, _, _, _)
process_days(n, day_queue, table, now_ts, mode, popped, attempted) ==
    IF n = 0
    THEN [day_queue |-> day_queue, table |-> table, raised |-> "no",
          popped |-> popped, attempted |-> attempted]
    ELSE LET r == process_pairs(1, Head(day_queue), table, now_ts, mode, attempted)
         IN IF r.raised # "no"
            THEN [day_queue |-> Tail(day_queue), table |-> r.table,
                  raised |-> r.raised,
                  popped |-> Append(popped, Head(day_queue)),
                  attempted |-> r.attempted]
            ELSE process_days(n - 1, Tail(day_queue), r.table, now_ts, mode,
                              Append(popped, Head(day_queue)), r.attempted)

\* a step that first prunes the rows older than the window
process_backfill_queue_pruning(day_queue, table, days_per_cycle, now_ts, mode) ==
    LET kept == {r \in table : r.ts >= three_months_ago(now_ts)}
        refilled == IF day_queue = <<>>
                    THEN build_missing_day_queue_multi(kept, now_ts)
                    ELSE day_queue
    IN IF days_per_cycle <= 0
       THEN [day_queue |-> refilled, table |-> kept, raised |-> "no",
             popped |-> <<>>, attempted |-> {}]
       ELSE process_days(Min(days_per_cycle, Len(refilled)), refilled, kept,
                         now_ts, mode, <<>>, {})

\* _process_backfill_queue_multi
process_backfill_queue_multi(day_queue, table, days_per_cycle, now_ts, mode) ==
    LET refilled == IF day_queue = <<>>
                    THEN build_missing_day_queue_multi(table, now_ts)
                    ELSE day_queue
    IN IF days_per_cycle <= 0
       THEN [day_queue |-> refilled, table |-> table, raised |-> "no",
             popped |-> <<>>, attempted |-> {}]
       ELSE process_days(Min(days_per_cycle, Len(refilled)), refilled, table,
                         now_ts, mode, <<>>, {})

----------------------------------------------------------------------------
(* SpecFetcher: run_fetcher, cycle after cycle, with now held fixed         *)

\* now: half a day into the day after the window, or one day later
FetchNows ==
    {(WindowDays * DayMs) + (DayMs \div 2),
     ((WindowDays + 1) * DayMs) + (DayMs \div 2)}

\* TAUTO_BACKFILL_DAYS_PER_CYCLE as configured
FetchDaysPerCycle == {0, 1, DEFAULT_BACKFILL_DAYS}

\* rows a run before this one may have left in the store
FetchSeedRows ==
    {CandleStick(FetchSources[1], FetchInstIds[FetchSources[1]][1],
                 FetchBars[FetchSources[1]][1], ts, 1, TRUE) :
         ts \in {0, WindowDays * DayMs}}
    \cup
    {CandleStick(FetchSources[2], FetchInstIds[FetchSources[2]][1],
                 FetchBars[FetchSources[2]][1], ts, 1, TRUE) :
         ts \in {DayMs, WindowDays * DayMs}}

\* the (inst_id, bar) pairs run_fetcher refreshes, lines 136-137
RefreshPairs ==
    [k \in 1..(Len(FetchInstIds["okx"]) * Len(FetchBars["okx"])) |->
        <<FetchInstIds["okx"][((k - 1) \div Len(FetchBars["okx"])) + 1],
          FetchBars["okx"][((k - 1) % Len(FetchBars["okx"])) + 1]>>]

\* run_fetcher up to line 133: the store is opened and the queue is built
FetcherInit ==
    /\ candles \in SUBSET FetchSeedRows
    /\ applied = <<>>
    /\ overwrote = {}
    /\ ret = [op |-> "init"]
    /\ NoLimiter
    /\ NoHistory
    /\ calls = <<>>
    /\ NoRest
    /\ \E now_ts \in FetchNows, d \in FetchDaysPerCycle,
          mode \in {"earliest", "latest", "empty"} :
           sched = [status |-> "refresh", pair |-> 1, refreshed |-> <<>>,
                    now |-> now_ts, days_per_cycle |-> d, adapter |-> mode,
                    day_queue |-> build_missing_day_queue_multi(candles, now_ts)]

\* lines 136-146: the refresh of the next pair, its exception caught and
\* logged, and the pacing sleep
RefreshCandles ==
    LET r == refresh_candles(candles, RefreshPairs[sched.pair][1],
                             RefreshPairs[sched.pair][2], sched.now)
    IN /\ sched.status = "refresh"
       /\ candles' = r.table
       /\ ret' = [op |-> "refresh_candles", pair |-> sched.pair,
                  raised |-> r.raised, pre |-> candles, branch |-> r.branch,
                  history |-> r.history, realtime |-> r.realtime]
       /\ sched' = [sched EXCEPT
                       !.pair = IF sched.pair < Len(RefreshPairs) THEN @ + 1 ELSE 1,
                       !.status = IF sched.pair < Len(RefreshPairs)
                                  THEN "refresh" ELSE "backfill",
                       !.refreshed = Append(@, <<"okx", RefreshPairs[sched.pair][1],
                                                 RefreshPairs[sched.pair][2]>>)]
       /\ UNCHANGED <<applied, overwrote, limVars, histVars, calls, restVars>>

\* lines 147-158: the backfill step, its exception caught and logged, and
\* the sleep to the end of the cycle
ProcessBackfillQueue ==
    LET r == process_backfill_queue_multi(sched.day_queue, candles,
                                          sched.days_per_cycle, sched.now,
                                          sched.adapter)
    IN /\ sched.status = "backfill"
       /\ candles' = r.table
       /\ ret' = [op |-> "process_backfill_queue", raised |-> r.raised,
                  popped |-> r.popped, attempted |-> r.attempted,
                  queue |-> sched.day_queue, pre |-> candles]
       /\ sched' = [sched EXCEPT !.status = "refresh", !.day_queue = r.day_queue,
                                 !.refreshed = <<>>]
       /\ UNCHANGED <<applied, overwrote, limVars, histVars, calls, restVars>>

FetcherNext ==
    \/ RefreshCandles
    \/ ProcessBackfillQueue

SpecFetcher == FetcherInit /\ [][FetcherNext]_vars

\* the loop of run_fetcher goes on: while True, with every exception of a
\* refresh and of the backfill step caught (lines 139-142, 147-157).  The
\* backfill step is enabled exactly when sched.status = "backfill" and always
\* leaves that status, so its weak fairness is the statement that the loop is
\* again and again past it
FairSpecFetcher ==
    /\ SpecFetcher
    /\ WF_vars(RefreshCandles)
    /\ []<>(sched.status = "refresh")

\* a rescan of the window finds no day bucket with missing candles
WindowComplete ==
    build_missing_day_queue_multi(candles, sched.now) = <<>>

\* C1: with now fixed, adapters that hold every grid candle and never fail,
\* and a scheduler that keeps running with days_per_cycle > 0, the store
\* eventually holds, and from then on keeps, every grid timestamp of the
\* window for every source, instrument and bar
C1_WindowEventuallyComplete ==
    <>[]((sched.days_per_cycle > 0 /\ sched.adapter # "empty") => WindowComplete)

\* no step of the scheduler adds, changes or removes a row of source okx
SchedulerStoresNoOkxRow ==
    [][{r \in candles : r.source = "okx"}' = {r \in candles : r.source = "okx"}]_vars

\* the configured (source, inst_id, bar) pairs of every source
ConfiguredPairs ==
    UNION {{<<FetchSources[s], FetchInstIds[FetchSources[s]][i],
              FetchBars[FetchSources[s]][j]>> :
               i \in 1..Len(FetchInstIds[FetchSources[s]]),
               j \in 1..Len(FetchBars[FetchSources[s]])} :
           s \in 1..Len(FetchSources)}

\* the half of C11 that is about the refresh
RefreshFailureSkipsOnlyThePair ==
    ret.op = "refresh_candles" =>
        IF ret.pair < Len(RefreshPairs)
        THEN sched.status = "refresh" /\ sched.pair = ret.pair + 1
        ELSE sched.status = "backfill"

\* C11: an exception in the refresh or the backfill of one pair does not stop
\* the others: after a refresh that raised the loop is at the next pair (or at
\* the backfill step), and after a backfill step every pair of a popped
\* bucket that still has a gap was attempted, also when a pair raised
C11_OtherPairsStillAttempted ==
    /\ RefreshFailureSkipsOnlyThePair
    /\ ret.op = "process_backfill_queue" =>
           /\ sched.status = "refresh"
           /\ \A k \in 1..Len(ret.popped) : \A p \in ConfiguredPairs :
                  (/\ p[1] = ret.popped[k][1]
                   /\ find_missing_in_day(candles, p[1], p[2], p[3],
                                          ret.popped[k][2], ret.popped[k][3]) # <<>>)
                      => <<p[1], p[2], p[3], ret.popped[k][2]>> \in ret.attempted

\* the OKX half of C12
OkxPairsRefreshedOnce ==
    sched.status = "backfill" =>
        \A p \in {q \in ConfiguredPairs : q[1] = "okx"} :
            Cardinality({k \in 1..Len(sched.refreshed) : sched.refreshed[k] = p}) = 1

\* C12: when the backfill step starts, every configured pair of every source
\* has been refreshed exactly once in this cycle
C12_EveryPairRefreshedOnce ==
    sched.status = "backfill" =>
        \A p \in ConfiguredPairs :
            Cardinality({k \in 1..Len(sched.refreshed) : sched.refreshed[k] = p}) = 1

\* a backfill step that asks the adapter about a day bucket of an instrument
\* the adapter has no candle of
EmptyBucketAttempt ==
    /\ sched.status = "backfill"
    /\ sched.adapter = "empty"
    /\ ret'.op = "process_backfill_queue"
    /\ ret'.attempted # {}

\* within one pass over the queue no bucket is asked about twice: a popped
\* bucket is not in the queue that is left
PoppedBucketLeavesQueue ==
    ret.op = "process_backfill_queue" =>
        Len(sched.day_queue) + Len(ret.popped) =
            Len(IF ret.queue = <<>>
                THEN build_missing_day_queue_multi(ret.pre, sched.now)
                ELSE ret.queue)

\* C28: a day bucket whose range has genuinely no upstream data is not
\* retried indefinitely: the number of consecutive empty-result fetch
\* attempts made for the same (source, day) bucket is bounded by a cap, after
\* which the bucket is no longer re-attempted
C28_EmptyBucketNotRetriedForever == <>[][~EmptyBucketAttempt]_vars

\* TAUTO_FETCH_LIMIT
DEFAULT_LIMIT == 300

\* max(_three_months_ago(now_ts), now_ts - limit * interval_ms), lines 172-173,
\* the product taken in seconds
RefreshStart(bar, now_ts) ==
    now_ts - Min(WindowDays * (DayMs \div 1000), DEFAULT_LIMIT * bar_seconds(bar)) * 1000

\* what a refresh does in the source tree: it raises before it has read the
\* store, and calls neither fetch_history nor fetch_realtime
RefreshTakesNoBranch ==
    ret.op = "refresh_candles" =>
        /\ ret.raised = "AttributeError"
        /\ ret.branch = "none"
        /\ ret.history = <<>> /\ ret.realtime = 0
        /\ candles = ret.pre

\* C35: the refresh of a pair takes the full-history branch if and only if
\* latest_timestamp returns none for that (source, instrument, bar); in that
\* branch it performs exactly one fetch_history from
\* start = max(now - 90 days, now - limit x interval_ms) to now and no
\* realtime fetch
C35_FullHistoryIffNoRows ==
    ret.op = "refresh_candles" =>
        LET inst_id == RefreshPairs[ret.pair][1]
            bar == RefreshPairs[ret.pair][2]
            latest == latest_timestamp(ret.pre, "okx", inst_id, bar)
        IN /\ (ret.branch = "history") <=> (latest = NoCursor)
           /\ latest = NoCursor =>
                  /\ ret.history = << <<RefreshStart(bar, sched.now), sched.now>> >>
                  /\ ret.realtime = 0

\* the pairs of the buckets popped by the last step that still have a gap
StillMissing ==
    {x \in ConfiguredPairs \X {ret.popped[k] : k \in 1..Len(ret.popped)} :
        /\ x[1][1] = x[2][1]
        /\ find_missing_in_day(candles, x[1][1], x[1][2], x[1][3],
                               x[2][2], x[2][3]) # <<>>}

\* C36: for an adapter with a candle at every grid timestamp, after the
\* scheduler has processed a popped day bucket without error, a re-check of
\* that bucket finds no missing timestamp for any instrument and bar of the
\* bucket's source
C36_ProcessedBucketHasNoGap ==
    (ret.op = "process_backfill_queue" /\ ret.raised = "no"
        /\ sched.adapter # "empty") => StillMissing = {}

\* C37: in every reachable state of the scheduler the backfill queue holds
\* each (source, day_start) bucket at most once, buckets of one source appear
\* in order of decreasing day, and every bucket satisfies
\* day_start <= day_end <= day_start + one day - 1 with day_end never later
\* than the now of the scan that built it
C37_QueueWellFormed ==
    sched.status # "off" =>
        /\ \A i, j \in 1..Len(sched.day_queue) :
              (i < j /\ sched.day_queue[i][1] = sched.day_queue[j][1])
                  => sched.day_queue[i][2] > sched.day_queue[j][2]
        /\ \A i \in 1..Len(sched.day_queue) :
              LET b == sched.day_queue[i]
              IN /\ b[2] <= b[3]
                 /\ b[3] <= b[2] + DayMs - 1
                 /\ b[3] <= sched.now
                 /\ b[2] = day_start_ts(b[2])

\* the step has rebuilt an empty queue and popped from it; the queue left
\* holds buckets of both sources, the first of them the day that is cut at now
C37_Witness ==
    /\ ret.op = "process_backfill_queue"
    /\ ret.queue = <<>>
    /\ Len(ret.popped) = 1
    /\ Len(sched.day_queue) >= 3
    /\ sched.day_queue[1][3] = sched.now
    /\ sched.day_queue[1][3] < sched.day_queue[1][2] + DayMs - 1
    /\ \E i \in 1..Len(sched.day_queue) : sched.day_queue[i][1] # sched.day_queue[1][1]

\* the keys of the stored candles
StoredKeys == {Key(r) : r \in candles}

\* C38: the scheduler loop never deletes candles: across any sequence of
\* refresh and backfill steps of the fetcher the set of stored candle keys
\* only grows (a key present in one state is present in the next, and so in
\* every later state)
C38_KeysOnlyGrow == [][StoredKeys \subseteq StoredKeys']_vars

\* a backfill step on a store that held rows older than the window has added
\* rows and kept the old ones
C38_Witness ==
    /\ ret.op = "process_backfill_queue"
    /\ \E r \in ret.pre : r.ts < three_months_ago(sched.now)
    /\ ret.pre \subseteq candles
    /\ Cardinality(candles) > Cardinality(ret.pre) + 1

\* the bucket whose processing raised in the last step: the last one popped
RaisedBucket == ret.popped[Len(ret.popped)]

\* C39: a day bucket is removed from the queue before it is processed and is
\* never put back by the backfill step: if processing it raises, the bucket
\* (with the buckets the step took before it, and nothing else) is gone from
\* the queue, the buckets behind it keep their order, and the day is in the
\* queue again only after the queue has drained and a rescan has found its
\* gap again
C39_RaisedBucketIsGone ==
    /\ [](ret.op = "process_backfill_queue" =>
            /\ \A k \in 1..Len(ret.popped) :
                  ~\E i \in 1..Len(sched.day_queue) : sched.day_queue[i] = ret.popped[k]
            /\ ret.raised # "no" =>
                  /\ Len(ret.popped) >= 1
                  /\ \E a \in ret.attempted :
                        a[1] = RaisedBucket[1] /\ a[4] = RaisedBucket[2]
                  /\ ret.popped \o sched.day_queue =
                        IF ret.queue = <<>>
                        THEN build_missing_day_queue_multi(ret.pre, sched.now)
                        ELSE ret.queue)
    /\ [][\A i \in 1..Len(sched.day_queue') :
             (\E j \in 1..Len(sched.day_queue) : sched.day_queue[j] = sched.day_queue'[i])
             \/ sched.day_queue = <<>>]_vars

\* the first bucket of a queue of six raised while the step had a quota of
\* three: it alone is gone, the five behind it are left as they were
C39_Witness ==
    /\ ret.op = "process_backfill_queue"
    /\ ret.raised = "TypeError"
    /\ sched.days_per_cycle = 3
    /\ Len(ret.queue) = 6
    /\ ret.popped = <<Head(ret.queue)>>
    /\ sched.day_queue = Tail(ret.queue)

\* the queue the last backfill step worked on: the queue it was given, or
\* the rescan of the window when that was empty
StepQueue ==
    IF ret.queue = <<>>
    THEN build_missing_day_queue_multi(ret.pre, sched.now)
    ELSE ret.queue

\* the number of buckets a step takes when nothing raises
StepQuota ==
    IF sched.days_per_cycle <= 0 THEN 0
    ELSE Min(sched.days_per_cycle, Len(StepQueue))

\* what was popped and what is left are the front and the rest of the queue
\* of the step
PoppedIsFront ==
    /\ ret.popped = SubSeq(StepQueue, 1, Len(ret.popped))
    /\ sched.day_queue = SubSeq(StepQueue, Len(ret.popped) + 1, Len(StepQueue))

\* what the step does keep to: it removes buckets from the front of the
\* queue, at most the quota: exactly that many when no bucket raises, and
\* those up to and including the bucket that raised otherwise
PopsFrontUpToQuota ==
    ret.op = "process_backfill_queue" =>
        /\ PoppedIsFront
        /\ Len(ret.popped) <= StepQuota
        /\ ret.raised = "no" => Len(ret.popped) = StepQuota
        /\ ret.raised # "no" => Len(ret.popped) >= 1

\* C34: in each cycle the backfill step removes exactly min(days_per_cycle,
\* queue length) buckets from the front of the queue (none when days_per_cycle
\* <= 0) and leaves the remaining buckets in their order; the queue is rebuilt
\* by rescanning the window only when it is empty at the start of the step
C34_PopsExactlyQuota ==
    ret.op = "process_backfill_queue" =>
        /\ PoppedIsFront
        /\ Len(ret.popped) = StepQuota

----------------------------------------------------------------------------
(* storage.py: initialize and _migrate_schema on the sqlite file.  The file  *)
(* holds what was committed (disk); the connection works on its own view    *)
(* (work).  Python's sqlite3 opens a transaction before an INSERT and not   *)
(* before CREATE, DROP or ALTER, and these do not commit an open one; the   *)
(* with-block of initialize commits at its end and rolls back on an error   *)

NoTable == [exists |-> FALSE, has_source |-> FALSE, rows |-> {}]

\* a candles table of the schema before the source column
LegacyTable(rows) == [exists |-> TRUE, has_source |-> FALSE, rows |-> rows]

\* a candles table as initialize creates it
SourceTable(rows) == [exists |-> TRUE, has_source |-> TRUE, rows |-> rows]

\* a row of the legacy table: no source
LegacyRow(inst_id, bar, ts, px, confirm) ==
    [inst_id |-> inst_id, bar |-> bar, ts |-> ts, px |-> px, confirm |-> confirm]

\* a copy that files the legacy rows under another source
MigratedRowBinance(r) == CandleStick("binance", r.inst_id, r.bar, r.ts, r.px, r.confirm)

\* lines 344-350: SELECT 'okx', inst_id, bar, ts, open, ..., confirm FROM candles
MigratedRow(r) == CandleStick("okx", r.inst_id, r.bar, r.ts, r.px, r.confirm)

\* every statement commits at once, as under isolation_level=None
InTransactionNever(d) == FALSE

\* whether the connection has a transaction open
InTransaction(d) == d.in_txn

\* a statement has changed the view to `work`: in a transaction it stays
\* uncommitted, outside of one it is committed at once
Executed(d, work) ==
    IF InTransaction(d) THEN [d EXCEPT !.work = work]
    ELSE [d EXCEPT !.work = work, !.disk = work]

\* initialize(): lines 101-102, _connect and the with-block entered
InitializeCall ==
    /\ db.status = "closed"
    /\ db' = [db EXCEPT !.status = "running", !.pc = "L315",
                        !.work = db.disk, !.in_txn = FALSE]
    /\ ret' = [op |-> "initialize", raised |-> "running"]
    /\ UNCHANGED <<storeVars, limVars, histVars, schedVars, books, req>>

\* _migrate_schema, lines 315-323: no candles table, or one with a source
\* column: nothing to migrate
MigrateCheck ==
    /\ db.status = "running" /\ db.pc = "L315"
    /\ db' = [db EXCEPT !.pc = IF db.work.candles.exists /\ ~db.work.candles.has_source
                               THEN "L324" ELSE "L104"]
    /\ UNCHANGED <<storeVars, ret, limVars, histVars, schedVars, books, req>>

\* lines 324-341: CREATE TABLE IF NOT EXISTS candles_v2
CreateV2 ==
    /\ db.status = "running" /\ db.pc = "L324"
    /\ db' = [Executed(db, IF db.work.candles_v2.exists THEN db.work
                           ELSE [db.work EXCEPT !.candles_v2 = SourceTable({})])
                 EXCEPT !.pc = "L342"]
    /\ UNCHANGED <<storeVars, ret, limVars, histVars, schedVars, books, req>>

\* lines 342-351: INSERT INTO candles_v2 ... SELECT 'okx', ... FROM candles.
\* It opens the transaction; a row whose key candles_v2 holds already is an
\* IntegrityError, which leaves initialize through the with-block: rollback
CopyRows ==
    /\ db.status = "running" /\ db.pc = "L342"
    /\ LET copied == {MigratedRow(r) : r \in db.work.candles.rows}
           clash == \E c \in copied, x \in db.work.candles_v2.rows : Key(c) = Key(x)
       IN IF clash
          THEN /\ db' = [db EXCEPT !.status = "closed", !.pc = "off",
                                   !.work = db.disk, !.in_txn = FALSE]
               /\ ret' = [op |-> "initialize", raised |-> "IntegrityError"]
          ELSE /\ db' = [db EXCEPT !.in_txn = TRUE, !.pc = "L352",
                                   !.work.candles_v2.rows = @ \cup copied]
               /\ UNCHANGED ret
    /\ UNCHANGED <<storeVars, limVars, histVars, schedVars, books, req>>

\* line 352: DROP TABLE candles
DropOld ==
    /\ db.status = "running" /\ db.pc = "L352"
    /\ db' = [Executed(db, [db.work EXCEPT !.candles = NoTable]) EXCEPT !.pc = "L353"]
    /\ UNCHANGED <<storeVars, ret, limVars, histVars, schedVars, books, req>>

\* line 353: ALTER TABLE candles_v2 RENAME TO candles
RenameNew ==
    /\ db.status = "running" /\ db.pc = "L353"
    /\ db' = [Executed(db, [db.work EXCEPT !.candles = db.work.candles_v2,
                                           !.candles_v2 = NoTable])
                 EXCEPT !.pc = "L104"]
    /\ UNCHANGED <<storeVars, ret, limVars, histVars, schedVars, books, req>>

\* lines 104-141: CREATE TABLE IF NOT EXISTS candles, orderbook_snapshots and
\* their indexes
CreateTables ==
    /\ db.status = "running" /\ db.pc = "L104"
    /\ db' = [Executed(db, [db.work EXCEPT
                               !.candles = IF @.exists THEN @ ELSE SourceTable({}),
                               !.orderbook_snapshots = TRUE])
                 EXCEPT !.pc = "commit"]
    /\ UNCHANGED <<storeVars, ret, limVars, histVars, schedVars, books, req>>

\* the with-block of initialize is left: commit
CommitInitialize ==
    /\ db.status = "running" /\ db.pc = "commit"
    /\ db' = [db EXCEPT !.status = "closed", !.pc = "off", !.disk = db.work,
                        !.in_txn = FALSE, !.runs = Min(@ + 1, 2)]
    /\ ret' = [op |-> "initialize", raised |-> "no"]
    /\ UNCHANGED <<storeVars, limVars, histVars, schedVars, books, req>>

\* the process dies while initialize runs: what was not committed is gone
Crash ==
    /\ db.status = "running"
    /\ db' = [db EXCEPT !.status = "closed", !.pc = "off", !.work = db.disk,
                        !.in_txn = FALSE, !.crashes = @ + 1,
                        !.crashed_at = @ \cup {db.pc}]
    /\ ret' = [op |-> "crash"]
    /\ UNCHANGED <<storeVars, limVars, histVars, schedVars, books, req>>

----------------------------------------------------------------------------
(* SpecMigrate: initialize() run again and again, with crashes, on a file    *)
(* that is new, of the legacy schema, or of the schema with a source       *)

\* the process dies at most MaxCrashes times
MaxCrashes == 2

MigInsts == {"BTC-USDT", "ETH-USDT"}

\* the candles a legacy file may hold
MigLegacyRows ==
    {LegacyRow(i, Bar1m, ts, 1, TRUE) : i \in MigInsts, ts \in {0}}
    \cup {LegacyRow("BTC-USDT", Bar1m, 60000, 2, FALSE)}

\* the candles a file of the present schema may hold
MigSourceRows ==
    {CandleStick(src, "BTC-USDT", Bar1m, ts, 1, TRUE) :
        src \in {"okx", "binance"}, ts \in {0}}
    \cup {CandleStick("okx", "BTC-USDT", Bar1m, 60000, 2, FALSE)}

ClosedDb(candles_table, orig, legacy) ==
    [status |-> "closed", pc |-> "off", in_txn |-> FALSE,
     disk |-> [candles |-> candles_table, candles_v2 |-> NoTable,
               orderbook_snapshots |-> candles_table.has_source],
     work |-> [candles |-> candles_table, candles_v2 |-> NoTable,
               orderbook_snapshots |-> candles_table.has_source],
     runs |-> 0, crashes |-> 0, crashed_at |-> {},
     orig |-> orig, legacy |-> legacy]

MigrateInit ==
    /\ NoStore
    /\ NoLimiter
    /\ NoHistory
    /\ NoSched
    /\ books = {}
    /\ req = [status |-> "idle"]
    /\ ret = [op |-> "init"]
    /\ \/ db = ClosedDb(NoTable, {}, FALSE)
       \/ \E rows \in SUBSET MigLegacyRows :
              db = ClosedDb(LegacyTable(rows),
                            {CandleStick("okx", r.inst_id, r.bar, r.ts, r.px, r.confirm) :
                                r \in rows},
                            TRUE)
       \/ \E rows \in SUBSET MigSourceRows :
              db = ClosedDb(SourceTable(rows), rows, FALSE)

MigrateNext ==
    \/ InitializeCall
    \/ MigrateCheck
    \/ CreateV2
    \/ CopyRows
    \/ DropOld
    \/ RenameNew
    \/ CreateTables
    \/ CommitInitialize
    \/ db.crashes < MaxCrashes /\ Crash

SpecMigrate == MigrateInit /\ [][MigrateNext]_vars

\* C13: an initialize() that was not interrupted, on a legacy file, leaves a
\* candles table with a source column that holds exactly the rows there were,
\* each under source okx with its other fields as they were; run again, or on
\* a migrated or new file, it changes no row
C13_MigrationKeepsRows ==
    (db.crashes = 0 /\ ret.op = "initialize" /\ ret.raised # "running") =>
        /\ ret.raised = "no"
        /\ db.disk.candles = SourceTable(db.orig)
        /\ ~db.disk.candles_v2.exists

\* a legacy file with rows has been migrated and initialize() has run again
C13_Witness ==
    /\ db.legacy /\ db.orig # {} /\ db.crashes = 0
    /\ db.runs = 2 /\ db.status = "closed"
    /\ db.disk.candles = SourceTable(db.orig)

\* a legacy row read as a row of source okx
LegacyAsOkx(r) == CandleStick("okx", r.inst_id, r.bar, r.ts, r.px, r.confirm)

\* the candles the file holds, committed, in its candles table
DiskRows(d) ==
    IF ~d.disk.candles.exists THEN {}
    ELSE IF d.disk.candles.has_source THEN d.disk.candles.rows
    ELSE {LegacyAsOkx(r) : r \in d.disk.candles.rows}

\* C14: whatever step of the migration the process dies after, the file
\* keeps every row in its candles table, and the initialize() after the
\* restart succeeds and leaves every legacy row exactly once
C14_CrashLosesNoRow ==
    /\ DiskRows(db) = db.orig
    /\ Cardinality(db.disk.candles.rows) = Cardinality(db.orig)
    /\ (db.crashes > 0 /\ ret.op = "initialize" /\ ret.raised # "running") =>
           /\ ret.raised = "no"
           /\ db.disk.candles = SourceTable(db.orig)

\* the process died after DROP TABLE and after the copy, and initialize()
\* has then migrated the legacy rows
C14_Witness ==
    /\ db.legacy /\ db.orig # {}
    /\ {"L352", "L353"} \subseteq db.crashed_at
    /\ ret.op = "initialize" /\ ret.raised = "no"
    /\ db.disk.candles = SourceTable(db.orig)

----------------------------------------------------------------------------
(* okx.py, binance.py: one logical request of a client, _request.  Both     *)
(* clients mount an HTTPAdapter whose Retry(total = max(max_retries - 1, 0), *)
(* status_forcelist = 429, 500, 502, 503, 504, raise_on_status = False)     *)
(* repeats an upstream attempt inside session.get; OkxClient._request loops *)
(* over session.get on top of that, BinanceClient._request does not         *)

\* what one upstream attempt may come to
Outcomes == {"ok", "api_error", "bad_json", "http_400", "http_503", "conn_error"}

\* the failures the mounted Retry repeats by itself
TransportRetried == {"http_503", "conn_error"}

RECURSIVE Pow2(_)
Pow2(n) == IF n <= 0 THEN 1 ELSE 2 * Pow2(n - 1)

\* a retry delay without the jitter
BackoffBase(retry_backoff, attempt) == retry_backoff * Pow2(attempt - 1)

\* okx.py _compute_backoff: retry_backoff * 2 ** (attempt - 1) plus
\* random.uniform(0, retry_backoff), the jitter being the input
compute_backoff(retry_backoff, attempt, jitter) ==
    retry_backoff * Pow2(attempt - 1) + jitter

\* the exception a finished session.get ends in, "no" for a payload with code "0"
OkxError(outcome) ==
    CASE outcome = "ok" -> "no"
      [] outcome = "api_error" -> "OkxApiError"
      [] outcome = "bad_json" -> "ValueError"
      [] outcome = "conn_error" -> "ConnectionError"
      [] OTHER -> "HTTPError"

\* binance.py _request, lines 44-48
BinanceError(outcome) ==
    CASE outcome = "ok" -> "no"
      [] outcome = "api_error" -> "BinanceApiError"
      [] outcome = "bad_json" -> "ValueError"
      [] outcome = "conn_error" -> "ConnectionError"
      [] OTHER -> "HTTPError"

\* client._request(path, params) is entered.  okx.py lines 50-52, 65-67: with
\* max_retries <= 0 the loop has no turn and RuntimeError is raised
RequestCall(client, max_retries, retry_backoff) ==
    /\ req.status \in {"idle", "returned", "raised"}
    /\ req' = [status |-> IF client = "okx" /\ max_retries <= 0
                          THEN "raised" ELSE "get",
               client |-> client, max_retries |-> max_retries,
               retry_backoff |-> retry_backoff,
               attempt |-> 1, inner |-> 0, gets |-> 0, upstream |-> 0,
               sleeps |-> <<>>,
               error |-> IF client = "okx" /\ max_retries <= 0
                         THEN "RuntimeError" ELSE "no",
               last |-> "none"]
    /\ UNCHANGED <<storeVars, ret, limVars, histVars, schedVars, db, books>>

\* one upstream attempt inside session.get (okx.py line 54, binance.py line
\* 44) comes to `outcome`.  The mounted Retry repeats it while retries are
\* left; otherwise session.get ends and _request handles what it got
UpstreamAttempt(outcome) ==
    /\ req.status = "get"
    /\ LET error == IF req.client = "okx" THEN OkxError(outcome)
                    ELSE BinanceError(outcome)
       IN req' =
           IF outcome \in TransportRetried /\ req.inner < Max(req.max_retries - 1, 0)
           THEN [req EXCEPT !.upstream = @ + 1, !.inner = @ + 1, !.last = outcome]
           ELSE [req EXCEPT
                    !.upstream = @ + 1, !.gets = @ + 1, !.last = outcome,
                    !.error = error,
                    !.status =
                        IF error = "no" THEN "returned"
                        ELSE IF req.client = "okx" /\ req.attempt < req.max_retries
                        THEN "sleep" ELSE "raised"]
    /\ UNCHANGED <<storeVars, ret, limVars, histVars, schedVars, db, books>>

\* okx.py line 64: time.sleep(self._compute_backoff(attempt)), then the next
\* turn of the loop
Backoff(jitter) ==
    /\ req.status = "sleep"
    /\ jitter <= req.retry_backoff
    /\ req' = [req EXCEPT !.status = "get", !.inner = 0, !.attempt = @ + 1,
                          !.sleeps = Append(@, compute_backoff(req.retry_backoff,
                                                               req.attempt, jitter))]
    /\ UNCHANGED <<storeVars, ret, limVars, histVars, schedVars, db, books>>

----------------------------------------------------------------------------
(* SpecRequest: logical requests of either client against an upstream that  *)
(* answers every attempt in any way                                         *)

\* max_retries is taken from 0..MaxRetries
MaxRetries == 3

\* retry_backoff, and the jitter, in tenths of a second: 0.1 and 0.2
Backoffs == {1, 2}

RequestInit ==
    /\ NoStore
    /\ NoLimiter
    /\ NoHistory
    /\ NoSched
    /\ db = [status |-> "closed"]
    /\ books = {}
    /\ ret = [op |-> "init"]
    /\ req = [status |-> "idle"]

RequestNext ==
    \/ \E client \in {"okx", "binance"}, m \in 0..MaxRetries, b \in Backoffs :
           RequestCall(client, m, b)
    \/ \E outcome \in Outcomes : UpstreamAttempt(outcome)
    \/ \E jitter \in 0..SetMax(Backoffs) : Backoff(jitter)

SpecRequest == RequestInit /\ [][RequestNext]_vars

\* OkxClient._request as a loop over session.get: at most max_retries calls
\* of session.get, a payload returned from the first that succeeds, the last
\* error raised once max_retries calls have failed, one sleep per retry
OkxLoopBounded ==
    (req.status # "idle" /\ req.client = "okx" /\ req.max_retries >= 1) =>
        /\ req.gets <= req.max_retries
        /\ req.attempt <= req.max_retries
        /\ req.status = "returned" => req.last = "ok" /\ req.gets = req.attempt
        /\ req.status = "raised" =>
               /\ req.gets = req.max_retries /\ req.error = OkxError(req.last)
               /\ req.error # "no"
        /\ Len(req.sleeps) = req.attempt - 1

\* C15: for one logical request the OKX client makes at most max_retries
\* upstream attempts, returns on the first success, and raises the last error
\* after max_retries failed attempts (max_retries = 1: one attempt, no sleep)
C15_AtMostMaxRetriesAttempts ==
    (req.status # "idle" /\ req.client = "okx" /\ req.max_retries >= 1) =>
        /\ req.upstream <= req.max_retries
        /\ req.status = "returned" => req.last = "ok"
        /\ req.status = "raised" =>
               /\ req.upstream = req.max_retries /\ req.error = OkxError(req.last)
        /\ req.max_retries = 1 => req.sleeps = <<>>

\* the OKX half of C16
OkxApiErrorRetried ==
    (req.status = "raised" /\ req.client = "okx" /\ req.last = "api_error"
        /\ req.max_retries >= 1) => req.gets = req.max_retries

\* C16: in either client a request is given up on an error code in a 200
\* response only when the attempt ceiling is reached, as for a network error
C16_ApiErrorRetried ==
    (req.status = "raised" /\ req.last = "api_error" /\ req.max_retries >= 1) =>
        req.gets = req.max_retries

\* the sleeps of OkxClient._request: one per retry, the k-th between
\* retry_backoff * 2^(k-1) and that plus retry_backoff
OkxSleepWithinJitter ==
    (req.status # "idle" /\ req.client = "okx") =>
        \A k \in 1..Len(req.sleeps) :
            /\ BackoffBase(req.retry_backoff, k) <= req.sleeps[k]
            /\ req.sleeps[k] <= BackoffBase(req.retry_backoff, k) + req.retry_backoff

\* C17: between a failed attempt and its retry the OKX client sleeps once, and
\* after the first failed attempt for exactly retry_backoff
C17_FirstSleepIsBackoff ==
    (req.status # "idle" /\ req.client = "okx") =>
        /\ Len(req.sleeps) = req.attempt - 1
        /\ Len(req.sleeps) >= 1 => req.sleeps[1] = req.retry_backoff

----------------------------------------------------------------------------
(* storage.py: the queries of the store, delete_older_than and the order   *)
(* book snapshots                                                          *)

\* Python's None for an Optional[int] parameter
None == -1

\* the cursor of SELECT ... ORDER BY ts DESC over the rows where
RECURSIVE OrderByTsDesc(_)
OrderByTsDesc(where) ==
    IF where = {} THEN <<>>
    ELSE LET hi == CHOOSE r \in where : \A x \in where : x.ts <= r.ts
         IN <<hi>> \o OrderByTsDesc(where \ {hi})

\* a LIMIT that keeps the last rows of the cursor
LimitTail(cursor, limit) ==
    SubSeq(cursor, Len(cursor) - Min(limit, Len(cursor)) + 1, Len(cursor))

\* LIMIT ?: the first limit rows of the cursor
Limit(cursor, limit) == SubSeq(cursor, 1, Min(limit, Len(cursor)))

\* list(reversed(q))
reversed(q) == [i \in 1..Len(q) |-> q[Len(q) + 1 - i]]

\* SqliteCandleStore.fetch_candles: the WHERE clauses that are given, ORDER BY
\* ts DESC, LIMIT when limit is given, a CandleStick per row, and the list
\* reversed
fetch_candles(table, source, inst_id, bar, limit, start_ts, end_ts) ==
    LET where == {r \in table :
                     /\ r.source = source /\ r.inst_id = inst_id /\ r.bar = bar
                     /\ (start_ts # None => r.ts >= start_ts)
                     /\ (end_ts # None => r.ts <= end_ts)}
        cursor == OrderByTsDesc(where)
        rows == IF limit # None THEN Limit(cursor, limit) ELSE cursor
        fetched == [i \in 1..Len(rows) |->
                       CandleStick(rows[i].source, rows[i].inst_id, rows[i].bar,
                                   rows[i].ts, rows[i].px, rows[i].confirm)]
    IN reversed(fetched)

\* a DELETE that also takes the rows at the cutoff
delete_through(table, cutoff_ts) == {r \in table : ~(r.ts <= cutoff_ts)}

\* DELETE FROM candles WHERE ts < ?: the table afterwards
delete_older_than(table, cutoff_ts) == {r \in table : ~(r.ts < cutoff_ts)}

\* the primary key (inst_id, ts_sec) of orderbook_snapshots
BookKey(s) == <<s.inst_id, s.ts_sec>>

\* the non-key columns
BookFields(s) == [ts_ms |-> s.ts_ms, depth |-> s.depth, bids |-> s.bids, asks |-> s.asks]

\* an INSERT OR IGNORE: the snapshot of a second that has one is dropped
upsert_orderbook_snapshot_ignore(table, inst_id, ts_ms, bids, asks, depth) ==
    LET ts_sec == ts_ms \div 1000
    IN IF \E s \in table : BookKey(s) = <<inst_id, ts_sec>> THEN table
       ELSE table \cup {[inst_id |-> inst_id, ts_sec |-> ts_sec, ts_ms |-> ts_ms,
                         depth |-> depth, bids |-> bids, asks |-> asks]}

\* ts_sec = int(ts_ms) // 1000, then INSERT INTO orderbook_snapshots ...
\* ON CONFLICT(inst_id, ts_sec) DO UPDATE SET ts_ms, depth, bids, asks.  bids
\* and asks stand for the JSON texts of the two sides
upsert_orderbook_snapshot(table, inst_id, ts_ms, bids, asks, depth) ==
    LET ts_sec == ts_ms \div 1000
    IN {s \in table : BookKey(s) # <<inst_id, ts_sec>>} \cup
       {[inst_id |-> inst_id, ts_sec |-> ts_sec, ts_ms |-> ts_ms,
         depth |-> depth, bids |-> bids, asks |-> asks]}

----------------------------------------------------------------------------
(* SpecQuery: a store that holds candles of several sources, instruments    *)
(* and bars, under fetch_candles, fetch_existing_timestamps,                *)
(* delete_older_than and upsert_orderbook_snapshot                          *)

Bar5m == <<5, "m">>

\* the series the queries are mostly about
QueryTs == {0, 60000, 120000, 180000}

QueryMainRows == {CandleStick("okx", "BTC-USDT", Bar1m, t, 1, TRUE) : t \in QueryTs}

\* one row of another source, of another instrument and of another bar
QueryOtherRows ==
    {CandleStick("binance", "BTC-USDT", Bar1m, 60000, 2, TRUE),
     CandleStick("okx", "ETH-USDT", Bar1m, 120000, 2, TRUE),
     CandleStick("okx", "BTC-USDT", Bar5m, 0, 2, FALSE)}

QuerySeries ==
    {<<"okx", "BTC-USDT", Bar1m>>, <<"binance", "BTC-USDT", Bar1m>>,
     <<"okx", "BTC-USDT", Bar5m>>}

QueryLimits == {None, 0, 1, 2}

QueryStarts == {0, 60000}

QueryEnds == {120000, 180000}

QueryCutoffs == {0, 120000, 180000}

BookTsMs == {0, 500}

Books == {1}

QueryInit ==
    /\ candles \in {main \cup other :
                       main \in SUBSET QueryMainRows, other \in {{}, QueryOtherRows}}
    /\ applied = <<>>
    /\ overwrote = {}
    /\ books = {}
    /\ ret = [op |-> "init"]
    /\ NoLimiter
    /\ NoHistory
    /\ NoSched
    /\ db = [status |-> "closed"]
    /\ req = [status |-> "idle"]

FetchCandles ==
    \E s \in QuerySeries, limit \in QueryLimits,
       start_ts \in QueryStarts \cup {None}, end_ts \in QueryEnds \cup {None} :
        /\ ret' = [op |-> "fetch_candles", source |-> s[1], inst_id |-> s[2],
                   bar |-> s[3], limit |-> limit, start_ts |-> start_ts,
                   end_ts |-> end_ts,
                   rows |-> fetch_candles(candles, s[1], s[2], s[3], limit,
                                          start_ts, end_ts)]
        /\ UNCHANGED <<storeVars, limVars, histVars, schedVars, restVars>>

FetchExistingTimestamps ==
    \E s \in QuerySeries, start_ts \in QueryStarts, end_ts \in QueryEnds :
        /\ ret' = [op |-> "fetch_existing_timestamps", source |-> s[1],
                   inst_id |-> s[2], bar |-> s[3], start_ts |-> start_ts,
                   end_ts |-> end_ts,
                   rows |-> fetch_existing_timestamps(candles, s[1], s[2], s[3],
                                                      start_ts, end_ts)]
        /\ UNCHANGED <<storeVars, limVars, histVars, schedVars, restVars>>

\* delete_older_than, as cleanup_old_data calls it with the retention cutoff;
\* rowcount is the number of rows the statement deleted
DeleteOlderThan ==
    \E cutoff_ts \in QueryCutoffs :
        /\ candles' = delete_older_than(candles, cutoff_ts)
        /\ ret' = [op |-> "delete_older_than", cutoff_ts |-> cutoff_ts,
                   rowcount |-> Cardinality(candles) - Cardinality(candles'),
                   pre |-> candles]
        /\ UNCHANGED <<applied, overwrote, limVars, histVars, schedVars, restVars>>

UpsertOrderbookSnapshot ==
    \E ts_ms \in BookTsMs, book \in Books :
        /\ books' = upsert_orderbook_snapshot(books, "BTC-USDT", ts_ms, book, book, None)
        /\ ret' = [op |-> "upsert_orderbook_snapshot"]
        /\ UNCHANGED <<storeVars, limVars, histVars, schedVars, db, req>>

QueryNext ==
    \/ FetchCandles
    \/ FetchExistingTimestamps
    \/ DeleteOlderThan
    \/ UpsertOrderbookSnapshot

SpecQuery == QueryInit /\ [][QueryNext]_vars

\* the rows of the table that belong to the series a query names
OfSeries(q) ==
    {r \in candles : r.source = q.source /\ r.inst_id = q.inst_id /\ r.bar = q.bar}

\* C18: fetch_candles(source, instrument, bar, limit, start, end) returns only
\* rows of that (source, instrument, bar) with start <= ts <= end, in strictly
\* ascending timestamp order; when limit is set and more than limit rows
\* qualify, it returns exactly the limit rows with the greatest timestamps
C18_FetchCandlesNewestInRange ==
    ret.op = "fetch_candles" =>
        LET qualify == {r \in OfSeries(ret) :
                           /\ (ret.start_ts # None => ret.start_ts <= r.ts)
                           /\ (ret.end_ts # None => r.ts <= ret.end_ts)}
            got == {ret.rows[i] : i \in 1..Len(ret.rows)}
        IN /\ got \subseteq qualify
           /\ \A i \in 1..(Len(ret.rows) - 1) : ret.rows[i].ts < ret.rows[i + 1].ts
           /\ (ret.limit # None /\ Cardinality(qualify) > ret.limit) =>
                  /\ Len(ret.rows) = ret.limit
                  /\ \A r \in got : \A x \in qualify \ got : x.ts < r.ts

\* three rows of the series lie in [60000, 180000], one lies before it and
\* another series has a row in it; with limit 2 the rows at 120000 and 180000
\* came back, in that order
C18_Witness ==
    /\ ret.op = "fetch_candles"
    /\ <<ret.source, ret.inst_id, ret.bar>> = <<"okx", "BTC-USDT", Bar1m>>
    /\ ret.limit = 2 /\ ret.start_ts = 60000 /\ ret.end_ts = 180000
    /\ QueryMainRows \cup QueryOtherRows \subseteq candles
    /\ Len(ret.rows) = 2
    /\ ret.rows[1].ts = 120000 /\ ret.rows[2].ts = 180000

\* C19: fetch_existing_timestamps(source, instrument, bar, start, end) returns,
\* in ascending order and without duplicates, exactly the timestamps ts with
\* start <= ts <= end (both bounds inclusive) stored for that (source,
\* instrument, bar), and no timestamp of any other source, instrument or bar
C19_ExistingTimestampsExact ==
    ret.op = "fetch_existing_timestamps" =>
        /\ \A i \in 1..(Len(ret.rows) - 1) : ret.rows[i] < ret.rows[i + 1]
        /\ {ret.rows[i] : i \in 1..Len(ret.rows)} =
               {r.ts : r \in {x \in OfSeries(ret) :
                                 ret.start_ts <= x.ts /\ x.ts <= ret.end_ts}}

\* the series has rows at both bounds, one between and one before start, and
\* another instrument has a row in the range: the three timestamps from start
\* to end came back
C19_Witness ==
    /\ ret.op = "fetch_existing_timestamps"
    /\ <<ret.source, ret.inst_id, ret.bar>> = <<"okx", "BTC-USDT", Bar1m>>
    /\ ret.start_ts = 60000 /\ ret.end_ts = 180000
    /\ QueryMainRows \cup QueryOtherRows \subseteq candles
    /\ ret.rows = <<60000, 120000, 180000>>

\* a step of delete_older_than
DeleteExact ==
    ret'.op = "delete_older_than" =>
        /\ candles \ candles' = {r \in candles : r.ts < ret'.cutoff_ts}
        /\ candles' \subseteq candles
        /\ ret'.rowcount = Cardinality({r \in candles : r.ts < ret'.cutoff_ts})
        /\ books' = books

\* C20: delete_older_than(cutoff) removes exactly the candle rows with
\* ts < cutoff, across all sources, instruments and bars, and returns their
\* count; every candle row with ts >= cutoff and every order-book snapshot is
\* left unchanged
C20_DeleteOlderThanExact == [][DeleteExact]_vars

\* with cutoff 180000 six rows of four series went, the row at 180000 stayed,
\* and so did a snapshot taken at second 0
C20_Witness ==
    /\ ret.op = "delete_older_than"
    /\ ret.cutoff_ts = 180000
    /\ ret.pre = QueryMainRows \cup QueryOtherRows
    /\ ret.rowcount = 6
    /\ candles = {CandleStick("okx", "BTC-USDT", Bar1m, 180000, 1, TRUE)}
    /\ \E s \in books : s.ts_sec = 0 /\ s.ts_ms = 500

----------------------------------------------------------------------------
(* SpecBook: the orderbook_snapshots table under arbitrary                  *)
(* upsert_orderbook_snapshot calls                                          *)

BookInsts == {"BTC-USDT", "ETH-USDT"}

\* two instants of second 0 and one of second 1
BookInstants == {0, 999, 1000}

BookSides == {1, 2}

BookDepths == {None, 5}

BookKeys == {<<i, t \div 1000>> : i \in BookInsts, t \in BookInstants}

BookInit ==
    /\ books = {}
    /\ applied = [k \in BookKeys |-> {}]
    /\ overwrote = {}
    /\ candles = {}
    /\ ret = [op |-> "init"]
    /\ NoLimiter
    /\ NoHistory
    /\ NoSched
    /\ db = [status |-> "closed"]
    /\ req = [status |-> "idle"]

UpsertSnapshot ==
    \E inst_id \in BookInsts, ts_ms \in BookInstants, bids \in BookSides,
       depth \in BookDepths :
        LET k == <<inst_id, ts_ms \div 1000>>
        IN /\ books' = upsert_orderbook_snapshot(books, inst_id, ts_ms, bids, 1, depth)
           /\ applied' = [applied EXCEPT ![k] =
                              {[ts_ms |-> ts_ms, depth |-> depth, bids |-> bids,
                                asks |-> 1]}]
           /\ overwrote' = IF applied[k] # {} THEN overwrote \cup {k} ELSE overwrote
           /\ ret' = [op |-> "upsert_orderbook_snapshot", key |-> k]
           /\ UNCHANGED <<candles, limVars, histVars, schedVars, db, req>>

SpecBook == BookInit /\ [][UpsertSnapshot]_vars

\* C21: after any sequence of upsert_orderbook_snapshot calls the store holds
\* at most one snapshot per (instrument, timestamp truncated to whole
\* seconds), and it carries the ts_ms, depth, bids and asks of the most recent
\* call for that instrument-second
C21_OneSnapshotPerSecond ==
    \A k \in BookKeys :
        LET rows == {s \in books : BookKey(s) = k}
        IN /\ Cardinality(rows) <= 1
           /\ {BookFields(s) : s \in rows} = applied[k]

\* second 0 of BTC-USDT was written twice: the snapshot of instant 0 gave way
\* to the one of instant 999 with other bids and another depth
C21_Witness ==
    /\ ret.op = "upsert_orderbook_snapshot"
    /\ ret.key = <<"BTC-USDT", 0>>
    /\ ret.key \in overwrote
    /\ \E s \in books :
           /\ BookKey(s) = ret.key
           /\ s.ts_ms = 999 /\ s.bids = 2 /\ s.depth = 5
    /\ \E s \in books : BookKey(s) = <<"BTC-USDT", 1>>

----------------------------------------------------------------------------
(* SpecWrite: upsert_candles statement by statement.  The connection is a   *)
(* context manager: executemany opens a transaction at its first INSERT,    *)
(* leaving the with block commits it, leaving it by an exception rolls it   *)
(* back.  candles is the table as committed; db.work is the table as the    *)
(* connection sees it                                                       *)

\* a candle whose prices are None: NOT NULL constraint failed,
\* sqlite3.IntegrityError
NotNullFails(c) == c.px = None

WriteCandles ==
    {CandleStick("okx", "BTC-USDT", Bar1m, t, px, TRUE) :
        t \in {0, 60000}, px \in {1, 2, None}}

\* a batch holds at most WriteMaxBatch candles
WriteMaxBatch == 2

WriteBatches == UNION {[1..n -> WriteCandles] : n \in 0..WriteMaxBatch}

WriteInit ==
    /\ candles = {}
    /\ applied = <<>>
    /\ overwrote = {}
    /\ ret = [op |-> "init"]
    /\ NoLimiter
    /\ NoHistory
    /\ NoSched
    /\ NoRest

\* lines 144-167: return on an empty batch, else build the rows and connect
UpsertCandlesCall ==
    /\ db.status = "closed"
    /\ \E batch \in WriteBatches :
           IF batch = <<>>
           THEN /\ ret' = [op |-> "upsert_candles", raised |-> FALSE, batch |-> batch,
                           pre |-> candles, partial |-> candles]
                /\ UNCHANGED db
           ELSE /\ db' = [status |-> "open", batch |-> batch, i |-> 1,
                          work |-> candles, error |-> FALSE]
                /\ ret' = [op |-> "call", pre |-> candles]
    /\ UNCHANGED <<storeVars, limVars, histVars, schedVars, books, req>>

\* executemany: the INSERT ... ON CONFLICT DO UPDATE of the next row
ExecuteRow ==
    /\ db.status = "open"
    /\ ~db.error
    /\ db.i <= Len(db.batch)
    /\ db' = IF NotNullFails(db.batch[db.i])
             THEN [db EXCEPT !.error = TRUE]
             ELSE [db EXCEPT !.work = UpsertRow(db.work, db.batch[db.i]),
                             !.i = db.i + 1]
    /\ UNCHANGED <<storeVars, ret, limVars, histVars, schedVars, books, req>>

\* a rollback that keeps what the transaction wrote
rollback_keep(committed, work) == work

\* connection.rollback(): the table is as committed before the transaction
rollback(committed, work) == committed

\* Connection.__exit__: rollback and re-raise on an exception, else commit
ExitConnection ==
    /\ db.status = "open"
    /\ db.error \/ db.i > Len(db.batch)
    /\ candles' = IF db.error THEN rollback(candles, db.work) ELSE db.work
    /\ ret' = [op |-> "upsert_candles", raised |-> db.error, batch |-> db.batch,
               pre |-> candles, partial |-> db.work]
    /\ db' = [status |-> "closed"]
    /\ UNCHANGED <<applied, overwrote, limVars, histVars, schedVars, books, req>>

WriteNext ==
    \/ UpsertCandlesCall
    \/ ExecuteRow
    \/ ExitConnection

SpecWrite == WriteInit /\ [][WriteNext]_vars

\* C22: upsert_candles applies a batch as a single atomic write: if the write
\* fails for any candle of the batch, no candle of that batch is stored, the
\* store is left as it was before the call and the error reaches the caller;
\* on an empty batch the call changes nothing
C22_BatchIsAtomic ==
    /\ db.status = "open" => candles = ret.pre
    /\ ret.op = "upsert_candles" =>
           /\ (\E i \in 1..Len(ret.batch) : NotNullFails(ret.batch[i])) =>
                  ret.raised /\ candles = ret.pre
           /\ ret.batch = <<>> => ~ret.raised /\ candles = ret.pre
           /\ ~ret.raised => candles = upsert_candles(ret.pre, ret.batch)

\* a batch of two whose first candle had overwritten the stored row of its
\* key inside the transaction and whose second candle failed: the call
\* raised and the stored row is the old one
C22_Witness ==
    /\ ret.op = "upsert_candles"
    /\ ret.raised
    /\ Len(ret.batch) = 2
    /\ ~NotNullFails(ret.batch[1]) /\ NotNullFails(ret.batch[2])
    /\ ret.batch[1] \in ret.partial
    /\ \E r \in ret.pre : Key(r) = Key(ret.batch[1]) /\ r.px # ret.batch[1].px
    /\ candles = ret.pre

----------------------------------------------------------------------------
(* SpecRealtime: CandlestickService.fetch_realtime, line by line, against   *)
(* an adapter that answers with any page of at most limit rows             *)

\* a row of get_candlesticks: the timestamp, the prices and the confirm flag,
\* all as the adapter sends them
OkxRow(ts, px, confirm) == [ts |-> ts, px |-> px, confirm |-> confirm]

\* the adapter's rows: the candle at 0 closed, the one at 60000 open or closed
RealtimeRows == {OkxRow(0, 2, "1"), OkxRow(60000, 2, "0"), OkxRow(60000, 2, "1")}

\* the newest candles first, at most limit of them, one per timestamp
RealtimeData(limit) ==
    {<<>>} \cup {<<r>> : r \in RealtimeRows} \cup
    {<<r1, r2>> : r1 \in {r \in RealtimeRows : r.ts = 60000 /\ limit >= 2},
                  r2 \in {r \in RealtimeRows : r.ts = 0}}

\* CandlestickService._parse_candle (lines 143-157): CandleStick(inst_id=...,
\* bar=..., ts=..., ..., confirm=values[8] == "1") without the required field
\* source of storage.py:17: TypeError for every row
parse_candle(inst_id, bar, row) == [raised |-> "TypeError"]

\* the candle the row stands for in the series of the OKX service
RowCandle(inst_id, bar, row) ==
    CandleStick("okx", inst_id, bar, row.ts, row.px, row.confirm = "1")

RealtimeInit ==
    /\ candles \in SUBSET {CandleStick("okx", "BTC-USDT", Bar1m, 0, 1, TRUE),
                            CandleStick("okx", "BTC-USDT", Bar1m, 60000, 1, FALSE)}
    /\ applied = <<>>
    /\ overwrote = {}
    /\ ret = [op |-> "init"]
    /\ NoLimiter
    /\ NoHistory
    /\ NoSched
    /\ NoRest

\* fetch_realtime(inst_id, limit) is called
FetchRealtimeCall ==
    /\ hist.status # "running"
    /\ \E inst_id \in {"BTC-USDT", "ETH-USDT"}, limit \in {1, 2} :
           hist' = [status |-> "running", op |-> "fetch_realtime", line |-> 62,
                    inst_id |-> inst_id, limit |-> limit, steps |-> <<>>,
                    data |-> <<>>, result |-> <<>>, raised |-> "no",
                    pre |-> candles]
    /\ writes' = {}
    /\ ret' = [op |-> "fetch_realtime"]
    /\ UNCHANGED <<storeVars, limVars, schedVars, restVars>>

\* line 62: self.realtime_limiter.acquire() returns
RealtimeAcquire ==
    /\ hist.status = "running" /\ hist.op = "fetch_realtime" /\ hist.line = 62
    /\ hist' = [hist EXCEPT !.line = 63, !.steps = Append(@, "acquire")]
    /\ UNCHANGED <<storeVars, ret, writes, limVars, schedVars, restVars>>

\* line 63: self.client.get_candlesticks(inst_id, bar, limit) answers
RealtimeGet ==
    /\ hist.status = "running" /\ hist.op = "fetch_realtime" /\ hist.line = 63
    /\ \E data \in RealtimeData(hist.limit) :
           hist' = [hist EXCEPT !.line = 64, !.data = data,
                                !.steps = Append(@, "get_candlesticks")]
    /\ UNCHANGED <<storeVars, ret, writes, limVars, schedVars, restVars>>

\* lines 64-66: parse every row, upsert the candles, return them.  The first
\* row raises in _parse_candle; with no row upsert_candles([]) returns at once
RealtimeStore ==
    /\ hist.status = "running" /\ hist.op = "fetch_realtime" /\ hist.line = 64
    /\ hist' = IF hist.data = <<>>
               THEN [hist EXCEPT !.status = "returned", !.line = 66,
                                 !.steps = Append(@, "upsert_candles")]
               ELSE [hist EXCEPT !.status = "raised", !.line = 64,
                                 !.raised = parse_candle(hist.inst_id, Bar1m,
                                                         hist.data[1]).raised]
    /\ UNCHANGED <<storeVars, ret, writes, limVars, schedVars, restVars>>

RealtimeNext ==
    \/ FetchRealtimeCall
    \/ RealtimeAcquire
    \/ RealtimeGet
    \/ RealtimeStore

SpecRealtime == RealtimeInit /\ [][RealtimeNext]_vars

\* the part of C24 about the order: the limiter is acquired before the adapter
\* is called, and the adapter is called once, whatever the store holds
RealtimeAcquiresThenCallsOnce ==
    (hist.status # "idle" /\ hist.op = "fetch_realtime") =>
        /\ hist.line >= 64 => /\ Len(hist.steps) >= 2
                               /\ hist.steps[1] = "acquire"
                               /\ hist.steps[2] = "get_candlesticks"
        /\ Cardinality({i \in 1..Len(hist.steps) :
                           hist.steps[i] = "get_candlesticks"}) <= 1

\* C24: every fetch_realtime(instrument, limit) call first acquires the
\* realtime limiter, then makes exactly one adapter call (even when the newest
\* stored candle is unchanged), then upserts every returned candle,
\* overwriting a stored unconfirmed candle with the same key, and returns
\* exactly the candles it upserted
C24_RealtimeFetchesAndStores ==
    (hist.status \in {"returned", "raised"} /\ hist.op = "fetch_realtime") =>
        /\ hist.raised = "no"
        /\ hist.steps = <<"acquire", "get_candlesticks", "upsert_candles">>
        /\ \A i \in 1..Len(hist.data) :
               RowCandle(hist.inst_id, Bar1m, hist.data[i]) \in candles
        /\ hist.result = [i \in 1..Len(hist.data) |->
                             RowCandle(hist.inst_id, Bar1m, hist.data[i])]

----------------------------------------------------------------------------
(* SpecBars: the interval conversions of both families and the gap          *)
(* detection of both services, over bar strings of known and unknown        *)
(* suffixes                                                                 *)

BarValues == {1, 2, 3}

BarSuffixes == {"s", "m", "H", "D", "W", "M", "h", "d", "w", "x"}

BarStrings == {<<v, u>> : v \in BarValues, u \in BarSuffixes}

\* the bars gap detection is asked about: two the family knows, and codes it
\* does not know
GapBars == {<<1, "m">>, <<3, "m">>, <<1, "H">>, <<1, "h">>, <<1, "x">>, <<2, "S">>}

BarsInit ==
    /\ candles \in SUBSET {CandleStick("okx", "BTC-USDT", Bar1m, 0, 1, TRUE),
                            CandleStick("binance", "BTC-USDT", Bar1m, 60000, 1, TRUE)}
    /\ applied = <<>>
    /\ overwrote = {}
    /\ ret = [op |-> "init"]
    /\ NoLimiter
    /\ NoHistory
    /\ NoSched
    /\ NoRest

\* _bar_to_milliseconds(bar) of candles.py and of fetcher.py
BarToMilliseconds ==
    \E bar \in BarStrings :
        /\ ret' = [op |-> "convert", family |-> "okx", bar |-> bar,
                   raised |-> IF bar_seconds(bar) = Unsupported
                              THEN "ValueError" ELSE "no",
                   seconds |-> bar_seconds(bar)]
        /\ UNCHANGED <<storeVars, limVars, histVars, schedVars, restVars>>

\* _binance_interval_ms(interval)
BinanceIntervalMs ==
    \E bar \in BarStrings :
        /\ ret' = [op |-> "convert", family |-> "binance", bar |-> bar,
                   raised |-> IF binance_interval_seconds(bar) = Unsupported
                              THEN "ValueError" ELSE "no",
                   seconds |-> binance_interval_seconds(bar)]
        /\ UNCHANGED <<storeVars, limVars, histVars, schedVars, restVars>>

\* service.backfill_missing("BTC-USDT", 0, 180000) of an OKX service of the bar
BarsBackfillMissing ==
    \E bar \in GapBars :
        LET r == backfill_missing(candles, "BTC-USDT", bar, 0, 180000)
        IN /\ ret' = [op |-> "gaps", family |-> "okx", bar |-> bar,
                      raised |-> r.raised, missing |-> r.missing]
           /\ UNCHANGED <<storeVars, limVars, histVars, schedVars, restVars>>

\* _find_missing_in_day(store, source, "BTC-USDT", bar, 0, 180000)
BarsFindMissingInDay ==
    \E source \in {"okx", "binance"}, bar \in GapBars :
        LET raised == find_missing_in_day_raised(source, bar)
        IN /\ ret' = [op |-> "gaps", family |-> source, bar |-> bar,
                      raised |-> raised,
                      missing |-> IF raised = "no"
                                  THEN find_missing_in_day(candles, source, "BTC-USDT",
                                                           bar, 0, 180000)
                                  ELSE <<>>]
           /\ UNCHANGED <<storeVars, limVars, histVars, schedVars, restVars>>

BarsNext ==
    \/ BarToMilliseconds
    \/ BinanceIntervalMs
    \/ BarsBackfillMissing
    \/ BarsFindMissingInDay

SpecBars == BarsInit /\ [][BarsNext]_vars

\* the length in seconds of the unit a family writes with the suffix
OkxUnitSeconds == [s |-> 1, m |-> 60, H |-> 3600, D |-> 86400, W |-> 604800,
                   M |-> 2592000]

BinanceUnitSeconds == [m |-> 60, h |-> 3600, d |-> 86400, w |-> 604800,
                       M |-> 2592000]

UnitSeconds(family) == IF family = "okx" THEN OkxUnitSeconds ELSE BinanceUnitSeconds

\* C25: interval-to-milliseconds conversion returns value x unit length for
\* the recognised suffixes (s, m, H, D, W, M with M = 30 days for the OKX
\* family; m, h, d, w, M for the Binance family) and raises an error for every
\* other bar string; it never returns a default interval, and gap detection
\* with an unsupported bar fails instead of producing a grid
C25_ConversionExactOrError ==
    /\ ret.op = "convert" =>
           IF ret.bar[2] \in DOMAIN UnitSeconds(ret.family)
           THEN /\ ret.raised = "no"
                /\ ret.seconds = ret.bar[1] * UnitSeconds(ret.family)[ret.bar[2]]
                /\ ret.bar[2] # "M" =>
                       (IF ret.family = "okx" THEN bar_to_milliseconds(ret.bar)
                        ELSE binance_interval_ms(ret.bar))
                           = ret.bar[1] * UnitSeconds(ret.family)[ret.bar[2]] * 1000
           ELSE ret.raised = "ValueError"
    /\ (ret.op = "gaps" /\ ret.bar[2] \notin DOMAIN UnitSeconds(ret.family)) =>
           ret.raised # "no" /\ ret.missing = <<>>

\* the gap check of the Binance family was asked about 1H, which is an hour in
\* the OKX family, and raised
C25_Witness ==
    /\ ret.op = "gaps" /\ ret.family = "binance" /\ ret.bar = <<1, "H">>
    /\ ret.raised = "ValueError"
    /\ bar_to_milliseconds(ret.bar) = 3600000

----------------------------------------------------------------------------
(* server.py: GET /api/candles *)

\* SUPPORTED_BARS (lines 22-48): the bar strings the OKX source takes, and the
\* bar each is read as
SUPPORTED_BARS ==
    (<<1, "m">> :> <<1, "m">>) @@ (<<5, "m">> :> <<5, "m">>) @@ (<<15, "m">> :> <<15, "m">>)
    @@ (<<30, "m">> :> <<30, "m">>) @@ (<<1, "h">> :> <<1, "H">>) @@ (<<1, "H">> :> <<1, "H">>)
    @@ (<<2, "h">> :> <<2, "H">>) @@ (<<2, "H">> :> <<2, "H">>) @@ (<<4, "h">> :> <<4, "H">>)
    @@ (<<4, "H">> :> <<4, "H">>) @@ (<<6, "h">> :> <<6, "H">>) @@ (<<6, "H">> :> <<6, "H">>)
    @@ (<<12, "h">> :> <<12, "H">>) @@ (<<12, "H">> :> <<12, "H">>) @@ (<<1, "d">> :> <<1, "D">>)
    @@ (<<1, "D">> :> <<1, "D">>) @@ (<<2, "d">> :> <<2, "D">>) @@ (<<2, "D">> :> <<2, "D">>)
    @@ (<<3, "d">> :> <<3, "D">>) @@ (<<3, "D">> :> <<3, "D">>) @@ (<<1, "w">> :> <<1, "W">>)
    @@ (<<1, "W">> :> <<1, "W">>) @@ (<<1, "M">> :> <<1, "M">>) @@ (<<3, "m">> :> <<3, "M">>)
    @@ (<<3, "M">> :> <<3, "M">>)

\* BINANCE_BARS (lines 49-64)
BINANCE_BARS ==
    (<<1, "m">> :> <<1, "m">>) @@ (<<3, "m">> :> <<3, "m">>) @@ (<<5, "m">> :> <<5, "m">>)
    @@ (<<15, "m">> :> <<15, "m">>) @@ (<<30, "m">> :> <<30, "m">>) @@ (<<1, "h">> :> <<1, "h">>)
    @@ (<<2, "h">> :> <<2, "h">>) @@ (<<4, "h">> :> <<4, "h">>) @@ (<<6, "h">> :> <<6, "h">>)
    @@ (<<12, "h">> :> <<12, "h">>) @@ (<<1, "d">> :> <<1, "d">>) @@ (<<3, "d">> :> <<3, "d">>)
    @@ (<<1, "w">> :> <<1, "w">>) @@ (<<1, "M">> :> <<1, "M">>)

VALID_SOURCES == {"okx", "binance", "binance_futures"}

BINANCE_CLIENTS == {"binance", "binance_futures"}

\* dict.get(bar): None is written <<0, "">>
NoBar == <<0, "">>

DictGet(d, bar) == IF bar \in DOMAIN d THEN d[bar] ELSE NoBar

\* the exchange lists the instrument since `listed` intervals: its klines are
\* the last `listed` grid timestamps up to now.  get_klines answers with at
\* most limit of those in [start_time, end_time], the earliest ones when
\* start_time is given and else the latest ones
get_klines(interval, limit, start_time, end_time, now_ms, listed) ==
    LET interval_ms == binance_interval_ms(interval)
        top == now_ms - (now_ms % interval_ms)
        S == {ts \in {top - i * interval_ms : i \in 0..(listed - 1)} :
                 /\ ts >= 0
                 /\ (start_time # None => ts >= start_time)
                 /\ (end_time # None => ts <= end_time)}
        q == Ascending(S)
    IN IF Len(q) <= limit THEN q
       ELSE IF start_time # None THEN SubSeq(q, 1, limit)
       ELSE SubSeq(q, Len(q) - limit + 1, Len(q))

\* _store_binance_klines: one get_klines call, the rows as candles of the
\* source, one upsert_candles
store_binance_klines(table, inst_id, bar, limit, source, start_time, end_time, now_ms, listed) ==
    LET klines == get_klines(bar, limit, start_time, end_time, now_ms, listed)
        rows == [i \in 1..Len(klines) |->
                    CandleStick(source, inst_id, bar, klines[i], 1, TRUE)]
    IN [fetched |-> Len(klines), table |-> upsert_candles(table, rows)]

\* _backfill_binance_history, the loop of lines 293-304
RECURSIVE backfill_binance_loop(_, _, _, _, _, _, _, _, _)
backfill_binance_loop(table, inst_id, bar, source, end_time, cutoff_ms, now_ms, listed, upstream) ==
    IF end_time < cutoff_ms THEN [table |-> table, upstream |-> upstream]
    ELSE LET r == store_binance_klines(table, inst_id, bar, 1000, source, None,
                                       end_time, now_ms, listed)
         IN IF r.fetched = 0 THEN [table |-> r.table, upstream |-> upstream + 1]
            ELSE backfill_binance_loop(r.table, inst_id, bar, source,
                                       end_time - r.fetched * binance_interval_ms(bar),
                                       cutoff_ms, now_ms, listed, upstream + 1)

\* _backfill_binance_history: the 90 days of line 291 are WindowDays days
backfill_binance_history(table, inst_id, bar, source, now_ms, listed) ==
    backfill_binance_loop(table, inst_id, bar, source, now_ms,
                          now_ms - (WindowDays * DayMs), now_ms, listed, 0)

\* the timestamps of the payload, in its order
Payload(rows) == [i \in 1..Len(rows) |-> rows[i].ts]

Rejected(detail, table) ==
    [status |-> 400, detail |-> detail, normalized |-> NoBar, table |-> table,
     queries |-> 0, upstream |-> 0, data |-> <<>>]

\* get_candles (lines 118-174)
get_candles(table, inst_id, bar, limit, source, all_data, since_ts, end_ts, now_ms, listed) ==
    IF source \notin VALID_SOURCES THEN Rejected("Unsupported data source", table)
    ELSE IF source \in BINANCE_CLIENTS
    THEN LET normalized == DictGet(BINANCE_BARS, bar)
             resolved_limit == Min(IF limit = None THEN 500 ELSE limit, 1000)
             start_time == IF since_ts # None THEN since_ts + 1 ELSE None
         IN IF normalized = NoBar THEN Rejected("Unsupported bar interval", table)
            ELSE IF all_data
            THEN LET r == backfill_binance_history(table, inst_id, normalized,
                                                   source, now_ms, listed)
                 IN [status |-> 200, detail |-> "", normalized |-> normalized,
                     table |-> r.table, queries |-> 1, upstream |-> r.upstream,
                     data |-> Payload(fetch_candles(r.table, source, inst_id,
                                                    normalized, None, None, None))]
            ELSE LET r == store_binance_klines(table, inst_id, normalized,
                                               resolved_limit, source, start_time,
                                               end_ts, now_ms, listed)
                 IN [status |-> 200, detail |-> "", normalized |-> normalized,
                     table |-> r.table, queries |-> 1, upstream |-> 1,
                     data |-> Payload(fetch_candles(r.table, source, inst_id,
                                                    normalized, resolved_limit,
                                                    start_time, end_ts))]
    ELSE LET normalized == DictGet(SUPPORTED_BARS, bar)
             resolved_limit == IF all_data THEN None ELSE limit
             start_ts == IF since_ts # None /\ ~all_data THEN since_ts + 1 ELSE None
         IN IF normalized = NoBar THEN Rejected("Unsupported bar interval", table)
            ELSE [status |-> 200, detail |-> "", normalized |-> normalized,
                  table |-> table, queries |-> 1, upstream |-> 0,
                  data |-> Payload(fetch_candles(table, "okx", inst_id, normalized,
                                                 resolved_limit, start_ts, end_ts))]

----------------------------------------------------------------------------
(* SpecServer: a request to /api/candles, with any parameters and any        *)
(* upstream, over a store that holds OKX candles of the bars 1m and 3M and  *)
(* a Binance candle of the bar 1h                                           *)

ServerSources == VALID_SOURCES \cup {"kraken"}

ServerBars ==
    {<<1, "m">>, <<3, "m">>, <<7, "m">>, <<1, "s">>, <<1, "h">>, <<1, "H">>,
     <<12, "h">>, <<1, "d">>, <<2, "d">>, <<3, "M">>}

\* now is noon of the third day
ServerNow == 2 * DayMs + (DayMs \div 2)

ServerRows ==
    {CandleStick("okx", "BTC-USDT", Bar1m, 0, 1, TRUE),
     CandleStick("okx", "BTC-USDT", <<3, "M">>, 0, 1, TRUE),
     CandleStick("binance", "BTC-USDT", <<1, "h">>, 2 * DayMs, 2, TRUE)}

ServerInit ==
    /\ candles \in SUBSET ServerRows
    /\ applied = <<>>
    /\ overwrote = {}
    /\ ret = [op |-> "init"]
    /\ NoLimiter
    /\ NoHistory
    /\ NoSched
    /\ NoRest

GetCandles ==
    /\ ret.op = "init"
    /\ \E source \in ServerSources, bar \in ServerBars, limit \in {1, 300},
          all_data \in BOOLEAN, since_ts \in {None, 2 * DayMs}, listed \in {0, 1, 3} :
          LET r == get_candles(candles, "BTC-USDT", bar, limit, source, all_data,
                               since_ts, None, ServerNow, listed)
          IN /\ candles' = r.table
             /\ ret' = [op |-> "get_candles", source |-> source, bar |-> bar,
                        status |-> r.status, detail |-> r.detail,
                        normalized |-> r.normalized, queries |-> r.queries,
                        upstream |-> r.upstream, data |-> r.data, pre |-> candles]
    /\ UNCHANGED <<applied, overwrote, limVars, histVars, schedVars, restVars>>

SpecServer == ServerInit /\ [][GetCandles]_vars

\* the interval a bar string names: the length its suffix has in the OKX
\* notation or, for h, d and w, in the Binance notation
NamedSeconds(bar) ==
    IF bar_seconds(bar) # Unsupported THEN bar_seconds(bar)
    ELSE binance_interval_seconds(bar)

\* the first half of C26: a bar the source does not take is answered with 400,
\* the store is not queried or changed and no upstream call is made
UnsupportedBarRejected ==
    (/\ ret.op = "get_candles"
     /\ ret.source \in VALID_SOURCES
     /\ ret.bar \notin DOMAIN (IF ret.source = "okx" THEN SUPPORTED_BARS
                               ELSE BINANCE_BARS)) =>
        /\ ret.status = 400
        /\ ret.queries = 0 /\ ret.upstream = 0
        /\ candles = ret.pre

\* C26: the candle read API rejects a bar string that the selected source
\* does not support with a client error (HTTP 400) and performs no store
\* query or upstream call for it; a bar string is never silently coerced to a
\* different interval than the one requested
C26_BarRejectedOrServedAsAsked ==
    ret.op = "get_candles" =>
        IF ret.status = 400
        THEN ret.queries = 0 /\ ret.upstream = 0 /\ candles = ret.pre
        ELSE NamedSeconds(ret.normalized) = NamedSeconds(ret.bar)

----------------------------------------------------------------------------
(* storage.py: subtract_months, _days_in_month, compute_retention_cutoff.   *)
(* A datetime is its year, month, day, second of the day and microsecond,  *)
(* in UTC                                                                  *)

datetime(year, month, day, sod, us) ==
    [year |-> year, month |-> month, day |-> day, sod |-> sod, us |-> us]

\* the calendar of the datetime library
IsLeap(year) == year % 4 = 0 /\ (year % 100 # 0 \/ year % 400 = 0)

MonthLength(year, month) ==
    IF month = 2 THEN (IF IsLeap(year) THEN 29 ELSE 28)
    ELSE IF month \in {4, 6, 9, 11} THEN 30 ELSE 31

\* datetime + timedelta(days=1) and datetime - timedelta(days=1)
NextDay(d) ==
    IF d.day < MonthLength(d.year, d.month) THEN [d EXCEPT !.day = d.day + 1]
    ELSE IF d.month < 12 THEN [d EXCEPT !.month = d.month + 1, !.day = 1]
    ELSE [d EXCEPT !.year = d.year + 1, !.month = 1, !.day = 1]

PrevDay(d) ==
    IF d.day > 1 THEN [d EXCEPT !.day = d.day - 1]
    ELSE IF d.month > 1
    THEN [d EXCEPT !.month = d.month - 1,
                   !.day = MonthLength(d.year, d.month - 1)]
    ELSE [d EXCEPT !.year = d.year - 1, !.month = 12, !.day = 31]

\* datetime + timedelta(days=days)
RECURSIVE AddDays(_, _)
AddDays(d, days) ==
    IF days = 0 THEN d
    ELSE IF days > 0 THEN AddDays(NextDay(d), days - 1)
    ELSE AddDays(PrevDay(d), days + 1)

\* _days_in_month: four days after the 28th lie in the next month; the day
\* before the first of that month is the last day of the month
days_in_month(year, month) ==
    LET next_month == AddDays(datetime(year, month, 28, 0, 0), 4)
        last_day == AddDays([next_month EXCEPT !.day = 1], -1)
    IN last_day.day

\* subtract_months, lines 363-365: while month <= 0: month += 12; year -= 1
RECURSIVE BorrowYears(_, _)
BorrowYears(year, month) ==
    IF month <= 0 THEN BorrowYears(year - 1, month + 12)
    ELSE [year |-> year, month |-> month]

\* a subtraction of months * 30 days
subtract_days(reference, months) == AddDays(reference, -(30 * months))

\* subtract_months
subtract_months(reference, months) ==
    LET ym == BorrowYears(reference.year, reference.month - months)
        day == Min(reference.day, days_in_month(ym.year, ym.month))
    IN [reference EXCEPT !.year = ym.year, !.month = ym.month, !.day = day]

\* the days from 1970-01-01 to the day of d
RECURSIVE DaysBeforeYear(_)
DaysBeforeYear(year) ==
    IF year <= 1970 THEN 0
    ELSE DaysBeforeYear(year - 1) + (IF IsLeap(year - 1) THEN 366 ELSE 365)

RECURSIVE DaysBeforeMonth(_, _)
DaysBeforeMonth(year, month) ==
    IF month <= 1 THEN 0
    ELSE DaysBeforeMonth(year, month - 1) + MonthLength(year, month - 1)

\* datetime.timestamp() of a UTC datetime: the whole seconds since the epoch
\* and the microseconds
timestamp(d) ==
    [sec |-> (DaysBeforeYear(d.year) + DaysBeforeMonth(d.year, d.month)
              + d.day - 1) * 86400 + d.sod,
     us |-> d.us]

\* compute_retention_cutoff: int(cutoff.timestamp() * 1000), written as the
\* whole seconds and the milliseconds of the second (the milliseconds since
\* the epoch are sec * 1000 + ms)
compute_retention_cutoff(months, now) ==
    LET t == timestamp(subtract_months(now, months))
    IN [sec |-> t.sec, ms |-> t.us \div 1000]

----------------------------------------------------------------------------
(* SpecMonths: one call of compute_retention_cutoff, over the dates of two   *)
(* years, one of them a leap year                                           *)

\* up to MaxMonths months are subtracted
MaxMonths == 14

MonthsYears == {2023, 2024}

MonthsDays == {1, 15, 28, 29, 30, 31}

\* midnight, and 12:05:00.500250
MonthsTimes == {<<0, 0>>, <<43500, 500250>>}

MonthsDates ==
    {datetime(y, m, d, t[1], t[2]) :
        y \in MonthsYears, m \in 1..12,
        d \in MonthsDays, t \in MonthsTimes}

MonthsInit ==
    /\ candles = {}
    /\ applied = <<>>
    /\ overwrote = {}
    /\ ret = [op |-> "init"]
    /\ NoLimiter
    /\ NoHistory
    /\ NoSched
    /\ NoRest

\* compute_retention_cutoff(months, now) with now a valid date
ComputeRetentionCutoff ==
    /\ ret.op = "init"
    /\ \E now \in MonthsDates, months \in 0..MaxMonths :
          /\ now.day <= MonthLength(now.year, now.month)
          /\ ret' = [op |-> "compute_retention_cutoff", reference |-> now,
                     months |-> months,
                     result |-> subtract_months(now, months),
                     cutoff |-> compute_retention_cutoff(months, now)]
    /\ UNCHANGED <<storeVars, limVars, histVars, schedVars, restVars>>

SpecMonths == MonthsInit /\ [][ComputeRetentionCutoff]_vars

\* the number of days of a month of the Gregorian calendar
CalendarDays(year, month) ==
    CASE month \in {1, 3, 5, 7, 8, 10, 12} -> 31
      [] month \in {4, 6, 9, 11} -> 30
      [] OTHER -> IF year % 400 = 0 \/ (year % 4 = 0 /\ year % 100 # 0)
                  THEN 29 ELSE 28

\* the whole days from 1970-01-01 to the first of January of the year
DaysToYear(year) ==
    (year - 1970) * 365 + Cardinality({y \in 1970..(year - 1) : CalendarDays(y, 2) = 29})

\* C27: subtract_months(reference, n) for n >= 0 performs calendar-month
\* subtraction with day clamping: the result is a valid date in the month n
\* months before the reference month (year borrowed as needed), with day =
\* min(reference day, number of days in the target month) and time of day
\* unchanged; e.g. 2024-03-31 minus 1 month is 2024-02-29, and
\* compute_retention_cutoff is that instant in milliseconds
C27_CalendarMonthsClamped ==
    ret.op = "compute_retention_cutoff" =>
        LET index == ret.reference.year * 12 + (ret.reference.month - 1) - ret.months
            year == index \div 12
            month == (index % 12) + 1
            day == Min(ret.reference.day, CalendarDays(year, month))
            days == DaysToYear(year) + day - 1
                      + Cardinality({<<m, d>> \in (1..12) \X (1..31) :
                                        m < month /\ d <= CalendarDays(year, m)})
        IN /\ ret.result = datetime(year, month, day, ret.reference.sod,
                                     ret.reference.us)
           /\ ret.cutoff.sec = days * 86400 + ret.reference.sod
           /\ ret.cutoff.ms = ret.reference.us \div 1000

\* 2024-03-31 12:05:00.500250 minus one month is 2024-02-29 12:05:00.500250,
\* the instant 1709208300500
C27_Witness ==
    /\ ret.op = "compute_retention_cutoff"
    /\ ret.reference = datetime(2024, 3, 31, 43500, 500250)
    /\ ret.months = 1
    /\ ret.result = datetime(2024, 2, 29, 43500, 500250)
    /\ ret.cutoff = [sec |-> 1709208300, ms |-> 500]

----------------------------------------------------------------------------
(* SpecStoreError: fetch_history of either service, page by page, against a *)
(* store whose upsert_candles may raise                                     *)

\* what sqlite3 raises out of upsert_candles (storage.py:167-185)
StoreErrors == {"OperationalError", "IntegrityError"}

\* a service that catches the exception of upsert_candles and goes on with
\* the loop
upsert_raised_swallowed(h, after, error) == after

\* fetcher.py:96-97 and candles.py:97 call store.upsert_candles with no try
\* around it: the exception leaves fetch_history at the call, after the page
\* was asked for and before all_candles, oldest or the cursor are touched
upsert_raised(h, after, error) ==
    [h EXCEPT !.status = "raised", !.raised = error,
              !.pages = after.pages, !.full = after.full]

\* BinanceBackfillService.fetch_history, one turn of the loop; upsert_candles
\* is called when filtered is not empty (line 95) and may raise
BinanceStoringPage ==
    /\ hist.status = "running"
    /\ hist.svc = "binance"
    /\ \E page \in BinancePages(hist.start_ts, hist.cursor),
          error \in {"no"} \cup StoreErrors :
          LET r == BinancePage(hist, candles, page)
          IN IF r.written # {} /\ error # "no"
             THEN /\ hist' = upsert_raised(hist, r.hist, error)
                  /\ candles' = rollback(candles, r.table)
                  /\ writes' = writes
                  /\ ret' = [op |-> "upsert_candles", raised |-> error,
                             pages |-> hist.pages + 1]
             ELSE /\ hist' = r.hist
                  /\ candles' = r.table
                  /\ writes' = writes \cup r.written
                  /\ ret' = [op |-> "fetch_history", pre |-> ret.pre]
    /\ UNCHANGED <<applied, overwrote, limVars, schedVars, restVars>>

StoreErrorNext ==
    \/ StartHistory
    \/ BinanceStoringPage
    \/ OkxHistoryPage

SpecStoreError == HistoryInit /\ [][StoreErrorNext]_vars

\* the OKX service never gets as far as a failing write: a page with rows
\* raises TypeError in _parse_candle, an empty page ends the loop
OkxNeverWrites ==
    hist.status # "idle" /\ hist.svc = "okx" =>
        /\ ret.op # "upsert_candles"
        /\ hist.raised \in {"no", "TypeError"}

\* C29: a storage error raised by upsert_candles during fetch_history is not
\* swallowed by the service: the call ends with that error raised to its
\* caller, and no page is requested after the page whose upsert failed
C29_StoreErrorPropagates ==
    ret.op = "upsert_candles" =>
        /\ hist.status = "raised"
        /\ hist.raised = ret.raised
        /\ hist.pages = ret.pages

\* the second page of a Binance call failed to be stored: the first page is
\* in the store, the cursor had not reached start_ts, and the call has ended
\* with the error
C29_Witness ==
    /\ ret.op = "upsert_candles"
    /\ ret.raised = "OperationalError"
    /\ hist.svc = "binance"
    /\ hist.status = "raised"
    /\ hist.pages = 2
    /\ hist.cursor >= hist.start_ts
    /\ Len(hist.all) = 2
    /\ Cardinality(candles) = 2

----------------------------------------------------------------------------
(* proxy.py: load_proxy_config.  Python values carry their type; a str is   *)
(* the sequence of its characters, a run of characters that are neither a  *)
(* comma nor a blank standing as one character                             *)

PyNone == [kind |-> "None"]

PyStr(s) == [kind |-> "str", s |-> s]

PyBool(b) == [kind |-> "bool", b |-> b]

PyInt(n) == [kind |-> "int", n |-> n]

PyList(items) == [kind |-> "list", items |-> items]

\* bool(value)
bool(v) ==
    CASE v.kind = "None" -> FALSE
      [] v.kind = "str" -> v.s # <<>>
      [] v.kind = "bool" -> v.b
      [] v.kind = "int" -> v.n # 0
      [] v.kind = "list" -> v.items # <<>>

\* a or b
Or(a, b) == IF bool(a) THEN a ELSE b

\* str.strip(): blanks off both ends
RECURSIVE strip(_)
strip(s) ==
    IF s = <<>> THEN s
    ELSE IF Head(s) = " " THEN strip(Tail(s))
    ELSE IF s[Len(s)] = " " THEN strip(SubSeq(s, 1, Len(s) - 1))
    ELSE s

\* str.split(","): the segments between the commas, empty ones included
RECURSIVE split(_, _)
split(s, segment) ==
    IF s = <<>> THEN <<segment>>
    ELSE IF Head(s) = "," THEN <<segment>> \o split(Tail(s), <<>>)
    ELSE split(Tail(s), Append(segment, Head(s)))

\* _normalize_no_proxy: the stripped segments that are not empty, as a tuple
normalize_no_proxy(value) ==
    LET parts == IF value.kind = "str"
                 THEN LET q == split(value.s, <<>>)
                      IN [i \in 1..Len(q) |-> strip(q[i])]
                 ELSE [i \in 1..Len(value.items) |-> strip(value.items[i])]
    IN IF value.kind = "None" THEN <<>>
       ELSE SelectSeq(parts, LAMBDA segment : segment # <<>>)

\* key.upper()
Upper == [http |-> "HTTP", https |-> "HTTPS"]

\* _coalesce_setting(settings, env, key); a mapping is a record whose absent
\* keys read as None, as .get does
coalesce_setting(settings, env, key) ==
    LET value == settings[key]
        env_value == Or(env[Upper[key] \o "_PROXY"], env[key \o "_proxy"])
    IN IF value.kind = "str" /\ value.s # <<>> THEN value
       ELSE Or(env_value, PyNone)

ProxyConfig(enabled, http, https, no_proxy) ==
    [enabled |-> enabled, http |-> http, https |-> https, no_proxy |-> no_proxy]

\* a loader that turns the proxy on whenever a proxy is found
resolve_enabled_found(enabled_setting, http, https) == bool(Or(http, https))

\* lines 44-48: enabled from the setting, or from the proxies found when the
\* setting is None
resolve_enabled(enabled_setting, http, https) ==
    IF enabled_setting = PyNone THEN bool(Or(http, https))
    ELSE bool(enabled_setting)

\* a mapping with no key
IsEmptyMapping(m) == \A k \in DOMAIN m : m[k] = PyNone

\* load_proxy_config(settings, env) in a process whose environment is environ
load_proxy_config(settings, env_arg, environ) ==
    LET env == IF IsEmptyMapping(env_arg) THEN environ ELSE env_arg
        http == coalesce_setting(settings, env, "http")
        https == coalesce_setting(settings, env, "https")
        no_proxy == IF settings.no_proxy = PyNone
                    THEN Or(env.NO_PROXY, env.no_proxy)
                    ELSE settings.no_proxy
        enabled == resolve_enabled(settings.enabled, http, https)
    IN IF ~enabled THEN ProxyConfig(FALSE, PyNone, PyNone, <<>>)
       ELSE ProxyConfig(TRUE, http, https, normalize_no_proxy(no_proxy))

----------------------------------------------------------------------------
(* SpecProxy: one call of load_proxy_config on any settings, env argument   *)
(* and process environment                                                 *)

ProxySettings ==
    [enabled : {PyNone, PyBool(TRUE), PyBool(FALSE), PyInt(0), PyStr(<<>>),
                PyStr(<<"false">>)},
     http : {PyNone, PyStr(<<>>), PyStr(<<"http://proxy.local">>), PyInt(8080)},
     https : {PyNone, PyStr(<<"https://proxy.local">>)},
     no_proxy : {PyNone, PyStr(<<>>),
                 PyStr(<<"localhost", ",", " ", "127.0.0.1", " ", ",">>),
                 PyList(<< <<" ", "host1">>, <<>> >>)}]

ProxyEnvs ==
    [HTTP_PROXY : {PyNone, PyStr(<<>>), PyStr(<<"http://env.proxy">>)},
     http_proxy : {PyNone, PyStr(<<"http://env.lower">>)},
     HTTPS_PROXY : {PyNone, PyStr(<<"https://env.proxy">>)},
     https_proxy : {PyNone},
     NO_PROXY : {PyNone, PyStr(<<"internal.local">>)},
     no_proxy : {PyNone, PyStr(<<>>)}]

\* os.environ of the process
ProxyEnvirons ==
    {e \in ProxyEnvs : /\ e.http_proxy = PyNone /\ e.HTTPS_PROXY = PyNone
                       /\ e.NO_PROXY = PyNone /\ e.no_proxy = PyNone
                       /\ e.HTTP_PROXY # PyStr(<<>>)}

ProxyInit ==
    /\ NoStore
    /\ ret = [op |-> "init"]
    /\ NoLimiter
    /\ NoHistory
    /\ NoSched
    /\ NoRest

LoadProxyConfig ==
    /\ ret.op = "init"
    /\ \E settings \in ProxySettings, env \in ProxyEnvs, environ \in ProxyEnvirons :
          ret' = [op |-> "load_proxy_config",
                  settings |-> settings, env |-> env, environ |-> environ,
                  result |-> load_proxy_config(settings, env, environ)]
    /\ UNCHANGED <<storeVars, limVars, histVars, schedVars, restVars>>

SpecProxy == ProxyInit /\ [][LoadProxyConfig]_vars

\* the proxies of kind key that the call can see: the setting when it is a
\* str, and the two environment variables of the environment it reads
ProxyCandidates(key) ==
    LET env == IF \E k \in DOMAIN ret.env : ret.env[k] # PyNone
               THEN ret.env ELSE ret.environ
    IN {v \in {ret.settings[key], env[Upper[key] \o "_PROXY"], env[key \o "_proxy"]} :
           v.kind = "str"}

ProxyFound(key) == \E v \in ProxyCandidates(key) : v.s # <<>>

ResolvesDisabled ==
    \/ ret.settings.enabled = PyBool(FALSE)
    \/ /\ ret.settings.enabled = PyNone
       /\ ~ProxyFound("http")
       /\ ~ProxyFound("https")

\* C30: when the proxy configuration resolves to disabled ('enabled' is false,
\* or 'enabled' is unset and neither an http nor an https proxy is found in
\* settings or environment), load_proxy_config returns enabled=False with
\* http=None, https=None and an empty no_proxy tuple, whatever proxy values the
\* settings or environment contain; and no result with enabled=False carries a
\* proxy value
C30_DisabledConfigIsBlank ==
    ret.op = "load_proxy_config" =>
        /\ ResolvesDisabled =>
              ret.result = [enabled |-> FALSE, http |-> PyNone, https |-> PyNone,
                            no_proxy |-> <<>>]
        /\ ~ret.result.enabled =>
              /\ ret.result.http = PyNone
              /\ ret.result.https = PyNone
              /\ ret.result.no_proxy = <<>>

\* enabled is False while the settings and the environment hold proxies and
\* no_proxy lists: the result is blank
C30_Witness ==
    /\ ret.op = "load_proxy_config"
    /\ ret.settings.enabled = PyBool(FALSE)
    /\ ret.settings.http = PyStr(<<"http://proxy.local">>)
    /\ ret.settings.no_proxy.kind = "str" /\ ret.settings.no_proxy.s # <<>>
    /\ ret.env.HTTPS_PROXY = PyStr(<<"https://env.proxy">>)
    /\ ret.env.NO_PROXY = PyStr(<<"internal.local">>)
    /\ ~ret.result.enabled
    /\ ret.result.http = PyNone
    /\ ret.result.no_proxy = <<>>

\* the result of the call is the same in every process environment
SameInEveryEnviron ==
    \A environ \in ProxyEnvirons :
        load_proxy_config(ret.settings, ret.env, environ) = ret.result

\* a non-empty str setting for http or https is what an enabled result carries
SettingTakesPrecedence ==
    ret.op = "load_proxy_config" =>
        \A key \in {"http", "https"} :
            (/\ ret.settings[key].kind = "str" /\ ret.settings[key].s # <<>>
             /\ ret.result.enabled) => ret.result[key] = ret.settings[key]

\* an env mapping with at least one key decides the result together with the
\* settings
NonEmptyEnvDecides ==
    (ret.op = "load_proxy_config" /\ ~IsEmptyMapping(ret.env)) => SameInEveryEnviron

\* C40: when an env mapping is passed to load_proxy_config, the result is a
\* function of the given settings and the given env only: two calls with equal
\* settings and equal env (including an empty env) return equal configs
\* whatever the process environment contains, and a non-empty string setting
\* for http or https always takes precedence over the env value
C40_ResultOfSettingsAndEnvOnly ==
    /\ ret.op = "load_proxy_config" => SameInEveryEnviron
    /\ SettingTakesPrecedence

\* the other way round: the loader fills the fields in when it is enabled
ProxyEnabledCarriesValues ==
    (ret.op = "load_proxy_config" /\ ret.settings.enabled = PyBool(TRUE)
        /\ ret.settings.no_proxy.kind = "str" /\ ret.settings.no_proxy.s # <<>>) =>
        /\ ret.result.enabled
        /\ ret.result.no_proxy = << <<"localhost">>, <<"127.0.0.1">> >>
        /\ ProxyFound("http") => ret.result.http # PyNone

----------------------------------------------------------------------------
(* SpecFrame: fetch_history on a store that already holds rows, against an  *)
(* adapter that answers with any page of its candles, in the range asked   *)
(* for or not                                                              *)

\* rows in the store before the call: two of the series the Binance call is
\* about, with another price than the adapter's, and one each of another
\* bar, another source and another instrument
FrameRows ==
    {CandleStick("binance", "BTCUSDT", Bar1m, 0, 2, TRUE),
     CandleStick("binance", "BTCUSDT", Bar1m, 180000, 2, TRUE),
     CandleStick("binance", "BTCUSDT", <<5, "m">>, 60000, 2, TRUE),
     CandleStick("okx", "BTC-USDT", Bar1m, 60000, 2, TRUE),
     CandleStick("binance", "ETHUSDT", Bar1m, 60000, 2, TRUE)}

\* a call is followed for FramePages pages
FramePages == 3

FrameInit ==
    /\ candles \in {{}, FrameRows}
    /\ applied = <<>>
    /\ overwrote = {}
    /\ ret = [op |-> "init"]
    /\ NoLimiter
    /\ NoHistory
    /\ NoSched
    /\ NoRest

\* one turn of the Binance loop with any page of the adapter's candles
BinanceAnyPage ==
    /\ hist.status = "running"
    /\ hist.svc = "binance"
    /\ hist.pages < FramePages
    /\ \E page \in OkxPages :
          LET r == BinancePage(hist, candles, page)
          IN /\ hist' = r.hist
             /\ candles' = r.table
             /\ writes' = writes \cup r.written
    /\ UNCHANGED <<applied, overwrote, ret, limVars, schedVars, restVars>>

\* the one call of a behaviour
FrameStart ==
    /\ ret.op = "init"
    /\ StartHistory

FrameNext ==
    \/ FrameStart
    \/ BinanceAnyPage
    \/ OkxHistoryPage

SpecFrame == FrameInit /\ [][FrameNext]_vars

\* the rows the call may write: those of its series with start <= ts <= end
InFrame(r) ==
    /\ r.source = hist.svc /\ r.inst_id = hist.inst_id /\ r.bar = hist.bar
    /\ hist.start_ts <= r.ts /\ r.ts <= hist.end_ts

\* C31: fetch_history(instrument, start, end) writes only candles with
\* start <= ts <= end: whatever pages the adapter returns, every stored row
\* whose timestamp lies outside [start, end], and every row of another
\* instrument, bar or source, is identical before and after the call (and at
\* every page of it), and the returned list contains exactly the candles it
\* upserted
C31_WritesOnlyInRange ==
    hist.status # "idle" =>
        /\ {r \in candles : ~InFrame(r)} = {r \in ret.pre : ~InFrame(r)}
        /\ \A k \in writes :
              k[1] = hist.svc /\ k[2] = hist.inst_id /\ k[3] = hist.bar
              /\ hist.start_ts <= k[4] /\ k[4] <= hist.end_ts
        /\ {hist.all[i] : i \in 1..Len(hist.all)} = {k[4] : k \in writes}
        /\ \A k \in writes : \E r \in candles : Key(r) = k /\ r.px = 1

\* a Binance call over [60000, 120000] on the seeded store has returned after
\* a page that held the candles at 0 and at 60000: the row at 0 kept its old
\* price, the candle at 60000 is stored and returned
C31_Witness ==
    /\ hist.status = "returned"
    /\ hist.svc = "binance"
    /\ hist.start_ts = 60000 /\ hist.end_ts = 120000
    /\ hist.oldest = 0
    /\ hist.all = <<60000>>
    /\ ret.pre = FrameRows
    /\ CandleStick("binance", "BTCUSDT", Bar1m, 0, 2, TRUE) \in candles
    /\ CandleStick("binance", "BTCUSDT", Bar1m, 60000, 1, TRUE) \in candles

----------------------------------------------------------------------------
(* Spec: the store under arbitrary upsert_candles calls *)

MaxBatch == 2

StoreSources == {"okx", "binance"}

StoreTs == {0, 60000}

\* an unconfirmed candle with the prices 1, and the same candle closed at 2
StoreFields == {[px |-> 1, confirm |-> FALSE], [px |-> 2, confirm |-> TRUE]}

StoreCandles ==
    {CandleStick(s, "BTC-USDT", Bar1m, t, f.px, f.confirm) :
        s \in StoreSources, t \in StoreTs, f \in StoreFields}

StoreKeys == {Key(c) : c \in StoreCandles}

Batches == UNION {[1..n -> StoreCandles] : n \in 0..MaxBatch}

\* the last position of the batch that carries key k (0 when none does)
LastIndex(batch, k) ==
    LET hits == {i \in 1..Len(batch) : Key(batch[i]) = k}
    IN IF hits = {} THEN 0 ELSE CHOOSE i \in hits : \A j \in hits : j <= i

StoreInit ==
    /\ candles = {}
    /\ applied = [k \in StoreKeys |-> {}]
    /\ overwrote = {}
    /\ ret = [op |-> "init"]
    /\ NoLimiter
    /\ NoHistory
    /\ NoSched
    /\ NoRest

UpsertCandles ==
    \E batch \in Batches :
        /\ candles' = upsert_candles(candles, batch)
        /\ applied' = [k \in StoreKeys |->
                          IF LastIndex(batch, k) = 0 THEN applied[k]
                          ELSE {Fields(batch[LastIndex(batch, k)])}]
        /\ overwrote' = overwrote \cup
                          {k \in StoreKeys :
                              \E i \in 1..Len(batch) :
                                  /\ Key(batch[i]) = k
                                  /\ \/ applied[k] # {}
                                     \/ \E j \in 1..(i - 1) : Key(batch[j]) = k}
        /\ ret' = [op |-> "upsert_candles", n |-> Len(batch)]
        /\ UNCHANGED <<limVars, histVars, schedVars, restVars>>

Next == UpsertCandles

Spec == StoreInit /\ [][Next]_vars

\* C2: after any sequence of upsert_candles calls the table holds at most one
\* row per key (source, inst_id, bar, ts), and a key that was ever upserted
\* has exactly the fields of the candle applied to it last
C2_LastWriteWins ==
    \A k \in StoreKeys :
        LET rows == {r \in candles : Key(r) = k}
        IN /\ Cardinality(rows) <= 1
           /\ {Fields(r) : r \in rows} = applied[k]

\* a key was upserted again with other field values and holds the later ones
C2_Witness ==
    \E r \in candles :
        /\ Key(r) \in overwrote
        /\ applied[Key(r)] = {Fields(r)}
        /\ r.px = 2 /\ r.confirm
        /\ ret.op = "upsert_candles" /\ ret.n = 2

====
